---- MODULE Spec2Model ----
(***************************************************************************)
(* Star Engine: the decision pipeline of src/src/core_improved.py with the *)
(* process-wide configuration of src/src/config.py, and the Triple I       *)
(* protocol of src/src/triple_i_protocol.py.                               *)
(*                                                                         *)
(* The numbers of the engine (its parameters, its configuration, what it   *)
(* computes) are Python floats, modelled bit for bit: see "Python floats"  *)
(* below.  Float(p, q) is the float a decimal p/q denotes, so 1.67 is      *)
(* Float(167, 100).  The values of a Triple I context are floats too, and  *)
(* the texts handed to the protocol are sequences of Unicode code points.   *)
(***************************************************************************)
EXTENDS Integers, Sequences, FiniteSets, TLC

VARIABLES env, _config, engine, lastCall, protocol, context, clock

vars == <<env, _config, engine, lastCall, protocol, context, clock>>

\* the state of the Triple I protocol and of its caller: the protocol object,
\* the caller's context mapping and the wall clock
tripleVars == <<protocol, context, clock>>

----------------------------------------------------------------------------
(* Bounds of the model. *)

\* resistance and direct-call tif range over the halves -1/2 .. MaxHalves/2
MaxHalves == 3
\* the i-powers range over the halves 1/2 .. MaxIHalves/2 (and 3.34, -1)
MaxIHalves == 3
\* the wall clock runs from 0 to MaxClock ticks
MaxClock == 2

----------------------------------------------------------------------------
(* Program constants. *)

\* None, for _config and for the engine not yet constructed
None == [tag |-> "None"]

\* dict.get(key, default)
get(params, key, default) ==
    IF key \in DOMAIN params THEN params[key] ELSE default

----------------------------------------------------------------------------
(* Python floats.                                                          *)
(*                                                                         *)
(* A float is an IEEE-754 binary64 number [neg, m, e] of value             *)
(* (-1)^neg * m * 2^e, where m is zero or has exactly 53 bits.  Mantissas  *)
(* and the intermediate results of the operations are naturals written as  *)
(* sequences of 15-bit limbs, least significant first, without high zero   *)
(* limbs (<<>> is zero), because a 53-bit integer does not fit TLC's       *)
(* integers.  Every operation computes the exact result and rounds it to   *)
(* the nearest float, ties to the even mantissa, as the hardware does.     *)
(* Subnormal numbers, infinities and NaN are outside the model.            *)

\* 2^n for n = 0 .. 15
Pow2(n) == <<1, 2, 4, 8, 16, 32, 64, 128, 256, 512, 1024, 2048, 4096, 8192,
             16384, 32768>>[n + 1]

Base == Pow2(15)

Limb(a, k) == IF k \in DOMAIN a THEN a[k] ELSE 0

MaxOf(S) == CHOOSE k \in S : \A j \in S : j <= k

\* a without its high zero limbs
Strip(a) ==
    LET nz == {k \in DOMAIN a : a[k] # 0}
    IN  IF nz = {} THEN <<>> ELSE SubSeq(a, 1, MaxOf(nz))

\* -1, 0, 1 as a < b, a = b, a > b
BCmp(a, b) ==
    IF Len(a) # Len(b) THEN (IF Len(a) < Len(b) THEN -1 ELSE 1)
    ELSE LET diff == {k \in DOMAIN a : a[k] # b[k]}
         IN  IF diff = {} THEN 0
             ELSE IF a[MaxOf(diff)] < b[MaxOf(diff)] THEN -1 ELSE 1

RECURSIVE AddFrom(_, _, _, _)
AddFrom(a, b, k, c) ==
    IF k > Len(a) /\ k > Len(b) THEN (IF c = 0 THEN <<>> ELSE <<c>>)
    ELSE LET s == Limb(a, k) + Limb(b, k) + c
         IN  <<s % Base>> \o AddFrom(a, b, k + 1, s \div Base)

BAdd(a, b) == AddFrom(a, b, 1, 0)

RECURSIVE SubFrom(_, _, _, _)
SubFrom(a, b, k, br) ==
    IF k > Len(a) THEN <<>>
    ELSE LET d == a[k] - Limb(b, k) - br
         IN  IF d < 0 THEN <<d + Base>> \o SubFrom(a, b, k + 1, 1)
             ELSE <<d>> \o SubFrom(a, b, k + 1, 0)

\* a - b for a >= b
BSub(a, b) == Strip(SubFrom(a, b, 1, 0))

RECURSIVE MulSFrom(_, _, _, _)
MulSFrom(a, s, k, c) ==
    IF k > Len(a) THEN (IF c = 0 THEN <<>> ELSE <<c>>)
    ELSE LET p == a[k] * s + c
         IN  <<p % Base>> \o MulSFrom(a, s, k + 1, p \div Base)

\* a * s for a small factor 0 <= s <= Base
BMulS(a, s) == IF s = 0 THEN <<>> ELSE MulSFrom(a, s, 1, 0)

BShlLimbs(a, n) == IF a = <<>> THEN <<>> ELSE [k \in 1..n |-> 0] \o a

\* a * 2^n
BShl(a, n) == BShlLimbs(BMulS(a, Pow2(n % 15)), n \div 15)

\* a \div 2^n
BShr(a, n) ==
    LET q == n \div 15
        w == Pow2(n % 15)
        v == Pow2(15 - (n % 15))
    IN  IF Len(a) <= q THEN <<>>
        ELSE Strip([k \in 1..(Len(a) - q) |->
                      (a[k + q] \div w) + (Limb(a, k + q + 1) % w) * v])

RECURSIVE MulFrom(_, _, _)
MulFrom(a, b, k) ==
    IF k > Len(b) THEN <<>>
    ELSE BAdd(BShlLimbs(BMulS(a, b[k]), k - 1), MulFrom(a, b, k + 1))

BMul(a, b) == MulFrom(a, b, 1)

\* the number of bits of a
BBitLen(a) ==
    IF a = <<>> THEN 0
    ELSE 15 * (Len(a) - 1)
         + (CHOOSE n \in 1..15 : Pow2(n - 1) <= a[Len(a)] /\ a[Len(a)] < Pow2(n))

BFromInt(n) == Strip(<<n % Base, (n \div Base) % Base, n \div (Base * Base)>>)

BToInt(a) == Limb(a, 1) + Limb(a, 2) * Base + Limb(a, 3) * Base * Base

\* the largest q <= est with q * d <= r
RECURSIVE QuotientDigit(_, _, _)
QuotientDigit(r, d, est) ==
    IF BCmp(BMulS(d, est), r) > 0 THEN QuotientDigit(r, d, est - 1) ELSE est

\* one step of the long division by d, whose high limb is at least Base/2:
\* the limb x joins the remainder, and the quotient gets one more digit
DivStep(v, d, x) ==
    LET put(r1, qd) == [q |-> <<qd>> \o v.q, r |-> BSub(r1, BMulS(d, qd))]
        digit(r1, est) ==
            put(r1, QuotientDigit(r1, d, IF est < Base THEN est ELSE Base - 1))
        take(r1) ==
            digit(r1, (Limb(r1, Len(d) + 1) * Base + Limb(r1, Len(d))) \div d[Len(d)])
    IN  take(IF x = 0 /\ v.r = <<>> THEN <<>> ELSE <<x>> \o v.r)

\* long division of n by d: v holds the quotient and the remainder of the
\* limbs of n taken so far, from the high limb down
RECURSIVE DivFrom(_, _, _)
DivFrom(n, d, v) ==
    IF Len(v.q) = Len(n) THEN v
    ELSE DivFrom(n, d, DivStep(v, d, n[Len(n) - Len(v.q)]))

\* quotient and remainder of n by d # 0
BDivMod(n, d) ==
    LET out(res, s) == [q |-> Strip(res.q), r |-> BShr(res.r, s)]
        scaled(s) == out(DivFrom(BShl(n, s), BShl(d, s), [q |-> <<>>, r |-> <<>>]), s)
    IN  scaled(15 * Len(d) - BBitLen(d))

\* n \div 2^d rounded to nearest, ties to even; sticky says that n stands
\* for a value slightly above n
BShrRound(n, d, sticky) ==
    LET up(q, c) ==
            IF c > 0 \/ (c = 0 /\ (sticky \/ Limb(q, 1) % 2 = 1))
            THEN BAdd(q, <<1>>) ELSE q
        rest(q) == up(q, BCmp(BSub(n, BShl(q, d)), BShl(<<1>>, d - 1)))
    IN  rest(BShr(n, d))

\* the float nearest to (-1)^neg * n * 2^e
Round(neg, n, e, sticky) ==
    LET carry(m1, len) ==
            IF BBitLen(m1) = 54
            THEN [neg |-> neg, m |-> BShr(m1, 1), e |-> e + (len - 53) + 1]
            ELSE [neg |-> neg, m |-> m1, e |-> e + (len - 53)]
        fit(len) ==
            IF n = <<>> THEN [neg |-> neg, m |-> <<>>, e |-> 0]
            ELSE IF len <= 53
            THEN [neg |-> neg, m |-> BShl(n, 53 - len), e |-> e - (53 - len)]
            ELSE carry(BShrRound(n, len - 53, sticky), len)
    IN  fit(BBitLen(n))

\* float(p / q) for integers p and q > 0: the float a decimal literal or a
\* parsed decimal string denotes
Float(p, q) ==
    LET nearest(dm) == Round(p < 0, dm.q, -100, dm.r # <<>>)
    IN  nearest(BDivMod(BShl(BFromInt(IF p < 0 THEN -p ELSE p), 100), BFromInt(q)))

FIsZero(a) == a.m = <<>>

FAbs(a) == [a EXCEPT !.neg = FALSE]

\* -1, 0, 1 as |a| < |b|, |a| = |b|, |a| > |b|
FCmpAbs(a, b) ==
    IF FIsZero(a) \/ FIsZero(b)
    THEN (IF FIsZero(a) /\ FIsZero(b) THEN 0 ELSE IF FIsZero(a) THEN -1 ELSE 1)
    ELSE IF a.e # b.e THEN (IF a.e < b.e THEN -1 ELSE 1)
    ELSE BCmp(a.m, b.m)

\* -1, 0, 1 as a < b, a == b, a > b; the two zeros are equal
FCmp(a, b) ==
    IF FIsZero(a) /\ FIsZero(b) THEN 0
    ELSE IF a.neg # b.neg THEN (IF a.neg THEN -1 ELSE 1)
    ELSE IF a.neg THEN -FCmpAbs(a, b) ELSE FCmpAbs(a, b)

FLt(a, b) == FCmp(a, b) < 0
FLe(a, b) == FCmp(a, b) <= 0
FGt(a, b) == FCmp(a, b) > 0
FGe(a, b) == FCmp(a, b) >= 0
FEq(a, b) == FCmp(a, b) = 0

\* a + b
FAdd(a, b) ==
    IF FIsZero(a) /\ FIsZero(b) THEN [a EXCEPT !.neg = a.neg /\ b.neg]
    ELSE IF FIsZero(a) THEN b
    ELSE IF FIsZero(b) THEN a
    ELSE LET sum(x, y, c, e) ==
                 Round(IF a.neg = b.neg \/ c > 0 THEN a.neg
                       ELSE IF c = 0 THEN FALSE ELSE b.neg,
                       IF a.neg = b.neg THEN BAdd(x, y)
                       ELSE IF c >= 0 THEN BSub(x, y) ELSE BSub(y, x),
                       e, FALSE)
             aligned(x, y, e) == sum(x, y, BCmp(x, y), e)
             scale(e) == aligned(BShl(a.m, a.e - e), BShl(b.m, b.e - e), e)
         IN  scale(IF a.e < b.e THEN a.e ELSE b.e)

\* a - b
FSub(a, b) == FAdd(a, [b EXCEPT !.neg = ~b.neg])

\* a * b
FMul(a, b) == Round(a.neg # b.neg, BMul(a.m, b.m), a.e + b.e, FALSE)

\* a / b for b # 0
FDiv(a, b) ==
    LET nearest(dm) == Round(a.neg # b.neg, dm.q, a.e - b.e - 56, dm.r # <<>>)
    IN  nearest(BDivMod(BShl(a.m, 56), b.m))

\* str(n) of a natural n
RECURSIVE Decimal(_)
Decimal(n) ==
    LET digits(dm) ==
            (IF dm.q = <<>> THEN "" ELSE Decimal(dm.q))
                \o SubSeq("0123456789", BToInt(dm.r) + 1, BToInt(dm.r) + 1)
    IN  digits(BDivMod(n, <<10>>))

\* f"{a:.4f}": the sign, the whole part, the point and four decimals of the
\* number of 1/10000 nearest to a, ties to the even one
Format4(a) ==
    LET point(s) ==
            (IF a.neg THEN "-" ELSE "") \o SubSeq(s, 1, Len(s) - 4) \o "."
                \o SubSeq(s, Len(s) - 3, Len(s))
        pad(s) == point(IF Len(s) >= 5 THEN s ELSE SubSeq("0000", 1, 5 - Len(s)) \o s)
        units(n) == pad(Decimal(IF a.e >= 0 THEN BShl(n, a.e)
                                ELSE BShrRound(n, -a.e, FALSE)))
    IN  units(BMulS(a.m, 10000))

\* math.atan(2^-i) * 2^100 rounded down, i = 0 .. 34
AtanTable ==
    <<
       <<10424, 6348, 3377, 13409, 8737, 8117, 804>>,
       <<12133, 32324, 26797, 30366, 5510, 25400, 474>>,
       <<31703, 28220, 12630, 221, 29273, 28119, 250>>,
       <<12606, 8798, 29078, 6070, 6828, 11125, 127>>,
       <<4828, 5711, 14555, 16250, 23446, 30043, 63>>,
       <<15286, 30621, 19076, 11972, 28394, 32426, 31>>,
       <<5520, 29638, 21947, 14121, 11127, 32725, 15>>,
       <<27199, 392, 23732, 24020, 21851, 32762, 7>>,
       <<12214, 30245, 28242, 28398, 10922, 32767, 3>>,
       <<11754, 14669, 15273, 11127, 30037, 32767, 1>>,
       <<26016, 23717, 24029, 21851, 32426, 32767>>,
       <<29335, 30546, 28398, 10922, 32725, 16383>>,
       <<14667, 15291, 11127, 21845, 32762, 8191>>,
       <<28325, 24029, 21851, 10922, 32767, 4095>>,
       <<30582, 28398, 10922, 30037, 32767, 2047>>,
       <<15291, 11127, 21845, 32426, 32767, 1023>>,
       <<24029, 21851, 10922, 32725, 32767, 511>>,
       <<28398, 10922, 21845, 32762, 32767, 255>>,
       <<11127, 21845, 10922, 32767, 32767, 127>>,
       <<21851, 10922, 30037, 32767, 32767, 63>>,
       <<10922, 21845, 32426, 32767, 32767, 31>>,
       <<21845, 10922, 32725, 32767, 32767, 15>>,
       <<10922, 21845, 32762, 32767, 32767, 7>>,
       <<21845, 10922, 32767, 32767, 32767, 3>>,
       <<10922, 30037, 32767, 32767, 32767, 1>>,
       <<21845, 32426, 32767, 32767, 32767>>,
       <<10922, 32725, 32767, 32767, 16383>>,
       <<21845, 32762, 32767, 32767, 8191>>,
       <<10922, 32767, 32767, 32767, 4095>>,
       <<30037, 32767, 32767, 32767, 2047>>,
       <<32426, 32767, 32767, 32767, 1023>>,
       <<32725, 32767, 32767, 32767, 511>>,
       <<32762, 32767, 32767, 32767, 255>>,
       <<32767, 32767, 32767, 32767, 127>>,
       <<32767, 32767, 32767, 32767, 63>> >>

\* one CORDIC rotation by atan(2^-i) of the vector (x, y) towards the x axis:
\* zp and zm add up the angles turned clockwise and anticlockwise
Rotate(v, i) ==
    LET turn(xs, c, t) ==
            [x    |-> BAdd(v.x, BShr(v.y, i)),
             y    |-> IF c >= 0 THEN BSub(v.y, xs) ELSE BSub(xs, v.y),
             yneg |-> IF c >= 0 THEN v.yneg ELSE ~v.yneg,
             zp   |-> IF v.yneg THEN v.zp ELSE t,
             zm   |-> IF v.yneg THEN t ELSE v.zm]
        step(xs) == turn(xs, BCmp(v.y, xs),
                         BAdd(IF v.yneg THEN v.zm ELSE v.zp, AtanTable[i + 1]))
    IN  step(BShr(v.x, i))

RECURSIVE Cordic(_, _)
Cordic(v, i) ==
    IF i = Len(AtanTable) \/ v.y = <<>> THEN v ELSE Cordic(Rotate(v, i), i + 1)

\* the angle of the vector (x, y), x > 0, y > 0, in 2^-100 radian: the
\* rotations leave an angle below 2^-33, which is y / x to 2^-100
Angle(x, y) ==
    LET total(v, t) ==
            BSub(IF v.yneg THEN v.zp ELSE BAdd(v.zp, t),
                 IF v.yneg THEN BAdd(v.zm, t) ELSE v.zm)
        rest(v) == total(v, BDivMod(BShl(v.y, 100), v.x).q)
    IN  rest(Cordic([x |-> x, y |-> y, yneg |-> FALSE, zp |-> <<>>, zm |-> <<>>], 0))

\* the 53-bit mantissas within 9/16 of a unit in the last place of n, whose
\* lowest d bits are cut off: n cut down when at most 9/16 is cut off, n cut
\* up when at least 7/16 is
Nearby(n, d) ==
    LET pick(q, t) == (IF t <= 8 THEN {q} ELSE {})
                          \cup (IF t >= 7 THEN {BAdd(q, <<1>>)} ELSE {})
        cut(q) == pick(q, BToInt(BShr(BSub(n, BShl(q, d)), d - 4)))
    IN  cut(BShr(n, d))

\* math.atan(a), the floats the C library's atan can return: a itself below
\* 2^-27 and otherwise a float within 9/16 of a unit in the last place of the
\* angle (pi/2 above 2^65).  The library does not round the angle correctly:
\* where two floats are that near, the result is either, as the library and
\* the processor's instruction set decide
FAtan(a) ==
    LET ex == a.e + 53
        floats(n, d) == {Round(a.neg, m, d - 100, FALSE) : m \in Nearby(n, d)}
        near(n) == floats(n, BBitLen(n) - 53)
    IN  IF FIsZero(a) \/ ex <= -27 THEN {a}
        ELSE near(IF ex > 65 THEN BShl(AtanTable[1], 1)
                  ELSE Angle(BShl(<<1>>, IF ex <= 0 THEN 100 ELSE 100 - ex),
                             BShl(a.m, IF ex <= 0 THEN 100 + a.e ELSE 47)))

\* 0.0 and 1.0
Zero == Float(0, 1)
One == Float(1, 1)

\* math.atan: the set of the floats it can return for x
atan(x) == FAtan(x)

\* math.pi
pi == [neg |-> FALSE, m |-> <<11544, 10376, 2029, 201>>, e |-> -51]

HARMONY_RIDGE_DEFAULT == Float(167, 100)
DYNAMIC_INVARIANT_DEFAULT == Float(189, 100)
DENSITY_THRESHOLD_DEFAULT == Float(334, 100)
COVENANT_MULTIPLIER_DEFAULT == Float(5, 1)
\* math.pi / 2 and math.pi / 4
QCI_TARGET_DEFAULT == FDiv(pi, Float(2, 1))
REPENTANCE_TRIGGER_THRESHOLD_DEFAULT == FDiv(pi, Float(4, 1))

----------------------------------------------------------------------------
(* config.py *)

\* StarEngineConfig(): the dataclass defaults
StarEngineConfig ==
    [tag |-> "StarEngineConfig",
     HARMONY_RIDGE |-> HARMONY_RIDGE_DEFAULT,
     DYNAMIC_INVARIANT |-> DYNAMIC_INVARIANT_DEFAULT,
     DENSITY_THRESHOLD |-> DENSITY_THRESHOLD_DEFAULT,
     COVENANT_MULTIPLIER |-> COVENANT_MULTIPLIER_DEFAULT,
     QCI_TARGET |-> QCI_TARGET_DEFAULT,
     REPENTANCE_TRIGGER_THRESHOLD |-> REPENTANCE_TRIGGER_THRESHOLD_DEFAULT]

\* float(os.getenv(key, default)): the environment maps a name to a decimal
\* string, written <<p, q>> for the decimal p/q, which float() parses
getenv(e, key, default) ==
    IF key \in DOMAIN e THEN Float(e[key][1], e[key][2]) ELSE default

\* StarEngineConfig.from_env: REPENTANCE_TRIGGER_THRESHOLD is not read from
\* the environment and keeps its default
from_env(e) ==
    [tag |-> "StarEngineConfig",
     HARMONY_RIDGE |-> getenv(e, "HARMONY_RIDGE", HARMONY_RIDGE_DEFAULT),
     DYNAMIC_INVARIANT |-> getenv(e, "DYNAMIC_INVARIANT", DYNAMIC_INVARIANT_DEFAULT),
     DENSITY_THRESHOLD |-> getenv(e, "DENSITY_THRESHOLD", DENSITY_THRESHOLD_DEFAULT),
     COVENANT_MULTIPLIER |-> getenv(e, "COVENANT_MULTIPLIER", COVENANT_MULTIPLIER_DEFAULT),
     QCI_TARGET |-> getenv(e, "QCI_TARGET", QCI_TARGET_DEFAULT),
     REPENTANCE_TRIGGER_THRESHOLD |-> REPENTANCE_TRIGGER_THRESHOLD_DEFAULT]

\* get_config(): the value returned, and the global it leaves behind
get_config(cfg, e) == IF cfg = None THEN from_env(e) ELSE cfg

\* The environments of the model: no override, or QCI_TARGET=0.5 and
\* HARMONY_RIDGE=1.0
Environments ==
    { [k \in {} |-> 0],
      [QCI_TARGET |-> <<5, 10>>, HARMONY_RIDGE |-> <<1, 1>>] }

----------------------------------------------------------------------------
(* core_improved.py: StarEngine *)

\* StarEngine.__init__: the configuration object and the copies of its fields
StarEngine(cfg) ==
    [tag |-> "StarEngine",
     config |-> cfg,
     HARMONY_RIDGE |-> cfg.HARMONY_RIDGE,
     DYNAMIC_INVARIANT |-> cfg.DYNAMIC_INVARIANT,
     DENSITY_THRESHOLD |-> cfg.DENSITY_THRESHOLD,
     COVENANT_MULTIPLIER |-> cfg.COVENANT_MULTIPLIER,
     QCI_TARGET |-> cfg.QCI_TARGET]

\* mutant: the boundary score already activates the dynamic invariant
get_dynamic_invariant_ge(self, coherence_score) ==
    IF FLt(coherence_score, Zero)
    THEN [raised |-> "CoherenceCalculationError", ret |-> <<>>]
    ELSE IF FGe(coherence_score, self.HARMONY_RIDGE)
         THEN [raised |-> "", ret |-> <<self.DYNAMIC_INVARIANT>>]
         ELSE [raised |-> "", ret |-> <<self.HARMONY_RIDGE>>]

\* mutant: no check of the sign (as in core.py)
get_dynamic_invariant_unchecked(self, coherence_score) ==
    IF FGt(coherence_score, self.HARMONY_RIDGE)
    THEN [raised |-> "", ret |-> <<self.DYNAMIC_INVARIANT>>]
    ELSE [raised |-> "", ret |-> <<self.HARMONY_RIDGE>>]

\* get_dynamic_invariant: the exception raised ("" when none) and the values
\* returned: one when the call returns, none when it raises
get_dynamic_invariant(self, coherence_score) ==
    IF FLt(coherence_score, Zero)
    THEN [raised |-> "CoherenceCalculationError", ret |-> <<>>]
    ELSE IF FGt(coherence_score, self.HARMONY_RIDGE)
         THEN [raised |-> "", ret |-> <<self.DYNAMIC_INVARIANT>>]
         ELSE [raised |-> "", ret |-> <<self.HARMONY_RIDGE>>]

\* mutant: a zero time window returns the raw difference
calculate_dfruit_dt_raw(self, alignment, separation, dt) ==
    IF FIsZero(dt) THEN FSub(alignment, separation)
    ELSE FDiv(FSub(alignment, separation), dt)

calculate_dfruit_dt(self, alignment, separation, dt) ==
    IF FIsZero(dt) THEN Zero ELSE FDiv(FSub(alignment, separation), dt)

calculate_tif(self, omega_truth, target_falsehood) ==
    FAbs(FSub(omega_truth, target_falsehood))

\* mutant: the two status thresholds compared strictly
qci_status_strict(self, qci) ==
    IF FGt(qci, FMul(self.QCI_TARGET, Float(75, 100))) THEN "COHERENT"
    ELSE IF FGt(qci, FMul(self.QCI_TARGET, Float(5, 10))) THEN "PARTIAL_COHERENCE"
    ELSE "NEEDS_REPENTANCE"

\* the status branch of calculate_qci
qci_status(self, qci) ==
    IF FGe(qci, FMul(self.QCI_TARGET, Float(75, 100))) THEN "COHERENT"
    ELSE IF FGe(qci, FMul(self.QCI_TARGET, Float(5, 10))) THEN "PARTIAL_COHERENCE"
    ELSE "NEEDS_REPENTANCE"

\* the dict calculate_qci returns for the index qci
qci_result(self, qci) ==
    [qci |-> qci,
     status |-> qci_status(self, qci),
     target |-> self.QCI_TARGET,
     delta_from_target |-> FSub(self.QCI_TARGET, qci)]

\* calculate_qci: the dicts it can return, one for each float math.atan can
\* return
calculate_qci(self, tif, resistance) ==
    {qci_result(self, qci) :
        qci \in IF FIsZero(resistance)
                THEN {IF FGt(tif, Zero) THEN self.QCI_TARGET ELSE Zero}
                ELSE atan(FDiv(tif, resistance))}

\* mutant: a density equal to the threshold is rejected
verify_density_strict(self, i1, i2, i3, i4) ==
    LET gt(density) == <<FGt(density, self.DENSITY_THRESHOLD), density>>
    IN  gt(FMul(FMul(FMul(i1, i2), i3), i4))

\* verify_density: <<is_valid, density>>
verify_density(self, i1, i2, i3, i4) ==
    LET ge(density) == <<FGe(density, self.DENSITY_THRESHOLD), density>>
    IN  ge(FMul(FMul(FMul(i1, i2), i3), i4))

\* the logger.info lines of repentance_protocol, in the order written
repentance_steps ==
    << "Repentance Protocol initiated", "Step 1 - Expose", "Step 2 - Recompile",
       "Step 3 - Purge", "Step 4 - Reset", "Repentance Protocol completed" >>

\* mutant: the reset value is the literal pi/2, not the configured target
repentance_protocol_literal(self, sin_patterns) ==
    [status |-> "REPENTANCE_COMPLETE",
     expose |-> <<"Exposed: ", sin_patterns>>,
     recompile |-> "Recompiled: falsehood -> truth",
     purge |-> TRUE,
     reset |-> TRUE,
     new_qci |-> QCI_TARGET_DEFAULT]

\* mutant: the record is returned before the reset step
repentance_protocol_partial(self, sin_patterns) ==
    [status |-> "REPENTANCE_COMPLETE",
     expose |-> <<"Exposed: ", sin_patterns>>,
     recompile |-> "Recompiled: falsehood -> truth",
     purge |-> TRUE,
     reset |-> FALSE,
     new_qci |-> self.QCI_TARGET]

repentance_protocol(self, sin_patterns) ==
    [status |-> "REPENTANCE_COMPLETE",
     expose |-> <<"Exposed: ", sin_patterns>>,
     recompile |-> "Recompiled: falsehood -> truth",  \* the source writes an arrow character
     purge |-> TRUE,
     reset |-> TRUE,
     new_qci |-> self.QCI_TARGET]

\* mutant: a coherence index equal to the threshold triggers repentance too
needs_repentance_le(self, qci) ==
    FLe(qci, self.config.REPENTANCE_TRIGGER_THRESHOLD)

\* the coherence gate of operational_flow
needs_repentance(self, qci) ==
    FLt(qci, self.config.REPENTANCE_TRIGGER_THRESHOLD)

\* operational_flow from the density gate on: is_valid, density = vd
flow_density(self, dfruit, qci, first, metrics, vd) ==
    IF ~vd[1]
    THEN [ret |-> << <<"REJECTED: Density ", vd[2],
                       " below threshold ", self.DENSITY_THRESHOLD>>,
                     None >>,
          calls |-> Append(first, "verify_density"),
          metrics |-> metrics]
    ELSE [ret |-> << <<"RELEASED: Density ", vd[2],
                       ", QCI ", Format4(qci),
                       ", dFruit/dt ", Format4(dfruit)>>,
                     None >>,
          calls |-> Append(first, "verify_density"),
          metrics |-> metrics]

\* operational_flow from the coherence gate on
flow_gate(self, params, dfruit, tif, result) ==
    LET qci     == result.qci
        first   == <<"calculate_dfruit_dt", "calculate_tif", "calculate_qci">>
        metrics == [dfruit |-> dfruit, tif |-> tif, qci |-> qci,
                    status |-> result.status]
    IN  IF needs_repentance(self, qci)
        THEN [ret |-> << <<"REJECTED: QCI below threshold. Triggering Repentance.">>,
                         repentance_protocol(self, "Low QCI detected") >>,
              calls |-> Append(first, "repentance_protocol"),
              metrics |-> metrics]
        ELSE flow_density(self, dfruit, qci, first, metrics,
                          verify_density(self, get(params, "i1", One),
                                         get(params, "i2", One),
                                         get(params, "i3", One),
                                         get(params, "i4", One)))

\* operational_flow once dfruit and tif are known
flow_metrics(self, params, dfruit, tif) ==
    {flow_gate(self, params, dfruit, tif, result) :
        result \in calculate_qci(self, tif, get(params, "resistance", One))}

\* operational_flow, the outcomes it can have (one for each dict calculate_qci
\* can return): the pair returned, the methods called in order, and the
\* metrics computed on the way.  A message is the sequence of its parts: the
\* literal text, a float for {density}, the text of Format4 for {qci:.4f}
operational_flow(self, input_data, params) ==
    LET tif_params == get(params, "tif", <<One, Zero>>)
    IN  flow_metrics(self, params,
                     calculate_dfruit_dt(self, get(params, "alignment", Zero),
                                         get(params, "separation", Zero),
                                         get(params, "dt", One)),
                     calculate_tif(self, tif_params[1], tif_params[2]))

----------------------------------------------------------------------------
(* Python strings.  The strings the program builds from its own literals    *)
(* (trace entries, messages, keys) are TLA+ strings.  A text handed to the  *)
(* protocol is any Unicode string: it is the sequence of its code points,   *)
(* and Str(s) is the text of the ASCII literal s.                           *)

\* the character at position k of s (from 1)
CharAt(s, k) == SubSeq(s, k, k)

\* ord(c) of a printable ASCII character: the code points 32 .. 95 and
\* 97 .. 126
ord(c) ==
    LET Ascii ==
            <<" !\"#$%&'()*+,-./0123456789:;<=>?@ABCDEFGHIJKLMNOPQRSTUVWXYZ[\\]^_",
              "abcdefghijklmnopqrstuvwxyz{|}~">>
    IN  IF \E k \in 1..Len(Ascii[1]) : CharAt(Ascii[1], k) = c
        THEN 31 + CHOOSE k \in 1..Len(Ascii[1]) : CharAt(Ascii[1], k) = c
        ELSE 96 + CHOOSE k \in 1..Len(Ascii[2]) : CharAt(Ascii[2], k) = c

\* the text of an ASCII literal
Str(s) == [k \in 1..Len(s) |-> ord(CharAt(s, k))]

\* the letters tried: 'abcdefghijklmnopqrstuvwxyz'
ascii_lowercase == Str("abcdefghijklmnopqrstuvwxyz")

(* str.upper() in Unicode 14.0, the version of Python 3.11: a character of  *)
(* a run <<lo, hi, step, delta>> (lo, lo + step, .., hi) becomes the        *)
(* character delta further on; a character of UpperSpecial becomes the      *)
(* characters listed; every other character stays.                          *)
UpperRuns ==
    <<
       <<97, 122, 1, -32>>, <<181, 181, 1, 743>>, <<224, 246, 1, -32>>,
       <<248, 254, 1, -32>>, <<255, 255, 1, 121>>, <<257, 303, 2, -1>>,
       <<305, 305, 1, -232>>, <<307, 311, 2, -1>>, <<314, 328, 2, -1>>,
       <<331, 375, 2, -1>>, <<378, 382, 2, -1>>, <<383, 383, 1, -300>>,
       <<384, 384, 1, 195>>, <<387, 389, 2, -1>>, <<392, 392, 1, -1>>, <<396,
       396, 1, -1>>, <<402, 402, 1, -1>>, <<405, 405, 1, 97>>, <<409, 409, 1,
       -1>>, <<410, 410, 1, 163>>, <<414, 414, 1, 130>>, <<417, 421, 2, -1>>,
       <<424, 424, 1, -1>>, <<429, 429, 1, -1>>, <<432, 432, 1, -1>>, <<436,
       438, 2, -1>>, <<441, 441, 1, -1>>, <<445, 445, 1, -1>>, <<447, 447, 1,
       56>>, <<453, 453, 1, -1>>, <<454, 454, 1, -2>>, <<456, 456, 1, -1>>,
       <<457, 457, 1, -2>>, <<459, 459, 1, -1>>, <<460, 460, 1, -2>>, <<462,
       476, 2, -1>>, <<477, 477, 1, -79>>, <<479, 495, 2, -1>>, <<498, 498,
       1, -1>>, <<499, 499, 1, -2>>, <<501, 501, 1, -1>>, <<505, 543, 2,
       -1>>, <<547, 563, 2, -1>>, <<572, 572, 1, -1>>, <<575, 576, 1,
       10815>>, <<578, 578, 1, -1>>, <<583, 591, 2, -1>>, <<592, 592, 1,
       10783>>, <<593, 593, 1, 10780>>, <<594, 594, 1, 10782>>, <<595, 595,
       1, -210>>, <<596, 596, 1, -206>>, <<598, 599, 1, -205>>, <<601, 601,
       1, -202>>, <<603, 603, 1, -203>>, <<604, 604, 1, 42319>>, <<608, 608,
       1, -205>>, <<609, 609, 1, 42315>>, <<611, 611, 1, -207>>, <<613, 613,
       1, 42280>>, <<614, 614, 1, 42308>>, <<616, 616, 1, -209>>, <<617, 617,
       1, -211>>, <<618, 618, 1, 42308>>, <<619, 619, 1, 10743>>, <<620, 620,
       1, 42305>>, <<623, 623, 1, -211>>, <<625, 625, 1, 10749>>, <<626, 626,
       1, -213>>, <<629, 629, 1, -214>>, <<637, 637, 1, 10727>>, <<640, 640,
       1, -218>>, <<642, 642, 1, 42307>>, <<643, 643, 1, -218>>, <<647, 647,
       1, 42282>>, <<648, 648, 1, -218>>, <<649, 649, 1, -69>>, <<650, 651,
       1, -217>>, <<652, 652, 1, -71>>, <<658, 658, 1, -219>>, <<669, 669, 1,
       42261>>, <<670, 670, 1, 42258>>, <<837, 837, 1, 84>>, <<881, 883, 2,
       -1>>, <<887, 887, 1, -1>>, <<891, 893, 1, 130>>, <<940, 940, 1, -38>>,
       <<941, 943, 1, -37>>, <<945, 961, 1, -32>>, <<962, 962, 1, -31>>,
       <<963, 971, 1, -32>>, <<972, 972, 1, -64>>, <<973, 974, 1, -63>>,
       <<976, 976, 1, -62>>, <<977, 977, 1, -57>>, <<981, 981, 1, -47>>,
       <<982, 982, 1, -54>>, <<983, 983, 1, -8>>, <<985, 1007, 2, -1>>,
       <<1008, 1008, 1, -86>>, <<1009, 1009, 1, -80>>, <<1010, 1010, 1, 7>>,
       <<1011, 1011, 1, -116>>, <<1013, 1013, 1, -96>>, <<1016, 1016, 1,
       -1>>, <<1019, 1019, 1, -1>>, <<1072, 1103, 1, -32>>, <<1104, 1119, 1,
       -80>>, <<1121, 1153, 2, -1>>, <<1163, 1215, 2, -1>>, <<1218, 1230, 2,
       -1>>, <<1231, 1231, 1, -15>>, <<1233, 1327, 2, -1>>, <<1377, 1414, 1,
       -48>>, <<4304, 4346, 1, 3008>>, <<4349, 4351, 1, 3008>>, <<5112, 5117,
       1, -8>>, <<7296, 7296, 1, -6254>>, <<7297, 7297, 1, -6253>>, <<7298,
       7298, 1, -6244>>, <<7299, 7300, 1, -6242>>, <<7301, 7301, 1, -6243>>,
       <<7302, 7302, 1, -6236>>, <<7303, 7303, 1, -6181>>, <<7304, 7304, 1,
       35266>>, <<7545, 7545, 1, 35332>>, <<7549, 7549, 1, 3814>>, <<7566,
       7566, 1, 35384>>, <<7681, 7829, 2, -1>>, <<7835, 7835, 1, -59>>,
       <<7841, 7935, 2, -1>>, <<7936, 7943, 1, 8>>, <<7952, 7957, 1, 8>>,
       <<7968, 7975, 1, 8>>, <<7984, 7991, 1, 8>>, <<8000, 8005, 1, 8>>,
       <<8017, 8023, 2, 8>>, <<8032, 8039, 1, 8>>, <<8048, 8049, 1, 74>>,
       <<8050, 8053, 1, 86>>, <<8054, 8055, 1, 100>>, <<8056, 8057, 1, 128>>,
       <<8058, 8059, 1, 112>>, <<8060, 8061, 1, 126>>, <<8112, 8113, 1, 8>>,
       <<8126, 8126, 1, -7205>>, <<8144, 8145, 1, 8>>, <<8160, 8161, 1, 8>>,
       <<8165, 8165, 1, 7>>, <<8526, 8526, 1, -28>>, <<8560, 8575, 1, -16>>,
       <<8580, 8580, 1, -1>>, <<9424, 9449, 1, -26>>, <<11312, 11359, 1,
       -48>>, <<11361, 11361, 1, -1>>, <<11365, 11365, 1, -10795>>, <<11366,
       11366, 1, -10792>>, <<11368, 11372, 2, -1>>, <<11379, 11379, 1, -1>>,
       <<11382, 11382, 1, -1>>, <<11393, 11491, 2, -1>>, <<11500, 11502, 2,
       -1>>, <<11507, 11507, 1, -1>>, <<11520, 11557, 1, -7264>>, <<11559,
       11559, 1, -7264>>, <<11565, 11565, 1, -7264>>, <<42561, 42605, 2,
       -1>>, <<42625, 42651, 2, -1>>, <<42787, 42799, 2, -1>>, <<42803,
       42863, 2, -1>>, <<42874, 42876, 2, -1>>, <<42879, 42887, 2, -1>>,
       <<42892, 42892, 1, -1>>, <<42897, 42899, 2, -1>>, <<42900, 42900, 1,
       48>>, <<42903, 42921, 2, -1>>, <<42933, 42947, 2, -1>>, <<42952,
       42954, 2, -1>>, <<42961, 42961, 1, -1>>, <<42967, 42969, 2, -1>>,
       <<42998, 42998, 1, -1>>, <<43859, 43859, 1, -928>>, <<43888, 43967, 1,
       -38864>>, <<65345, 65370, 1, -32>>, <<66600, 66639, 1, -40>>, <<66776,
       66811, 1, -40>>, <<66967, 67003, 2, -39>>, <<66968, 66976, 2, -39>>,
       <<66980, 66992, 2, -39>>, <<66996, 67000, 2, -39>>, <<67004, 67004, 1,
       -39>>, <<68800, 68850, 1, -64>>, <<71872, 71903, 1, -32>>, <<93792,
       93823, 1, -32>>, <<125218, 125251, 1, -34>> >>

UpperSpecial ==
    <<
       <<223, <<83, 83>>>>, <<329, <<700, 78>>>>, <<496, <<74, 780>>>>,
       <<912, <<921, 776, 769>>>>, <<944, <<933, 776, 769>>>>, <<1415,
       <<1333, 1362>>>>, <<7830, <<72, 817>>>>, <<7831, <<84, 776>>>>,
       <<7832, <<87, 778>>>>, <<7833, <<89, 778>>>>, <<7834, <<65, 702>>>>,
       <<8016, <<933, 787>>>>, <<8018, <<933, 787, 768>>>>, <<8020, <<933,
       787, 769>>>>, <<8022, <<933, 787, 834>>>>, <<8064, <<7944, 921>>>>,
       <<8065, <<7945, 921>>>>, <<8066, <<7946, 921>>>>, <<8067, <<7947,
       921>>>>, <<8068, <<7948, 921>>>>, <<8069, <<7949, 921>>>>, <<8070,
       <<7950, 921>>>>, <<8071, <<7951, 921>>>>, <<8072, <<7944, 921>>>>,
       <<8073, <<7945, 921>>>>, <<8074, <<7946, 921>>>>, <<8075, <<7947,
       921>>>>, <<8076, <<7948, 921>>>>, <<8077, <<7949, 921>>>>, <<8078,
       <<7950, 921>>>>, <<8079, <<7951, 921>>>>, <<8080, <<7976, 921>>>>,
       <<8081, <<7977, 921>>>>, <<8082, <<7978, 921>>>>, <<8083, <<7979,
       921>>>>, <<8084, <<7980, 921>>>>, <<8085, <<7981, 921>>>>, <<8086,
       <<7982, 921>>>>, <<8087, <<7983, 921>>>>, <<8088, <<7976, 921>>>>,
       <<8089, <<7977, 921>>>>, <<8090, <<7978, 921>>>>, <<8091, <<7979,
       921>>>>, <<8092, <<7980, 921>>>>, <<8093, <<7981, 921>>>>, <<8094,
       <<7982, 921>>>>, <<8095, <<7983, 921>>>>, <<8096, <<8040, 921>>>>,
       <<8097, <<8041, 921>>>>, <<8098, <<8042, 921>>>>, <<8099, <<8043,
       921>>>>, <<8100, <<8044, 921>>>>, <<8101, <<8045, 921>>>>, <<8102,
       <<8046, 921>>>>, <<8103, <<8047, 921>>>>, <<8104, <<8040, 921>>>>,
       <<8105, <<8041, 921>>>>, <<8106, <<8042, 921>>>>, <<8107, <<8043,
       921>>>>, <<8108, <<8044, 921>>>>, <<8109, <<8045, 921>>>>, <<8110,
       <<8046, 921>>>>, <<8111, <<8047, 921>>>>, <<8114, <<8122, 921>>>>,
       <<8115, <<913, 921>>>>, <<8116, <<902, 921>>>>, <<8118, <<913,
       834>>>>, <<8119, <<913, 834, 921>>>>, <<8124, <<913, 921>>>>, <<8130,
       <<8138, 921>>>>, <<8131, <<919, 921>>>>, <<8132, <<905, 921>>>>,
       <<8134, <<919, 834>>>>, <<8135, <<919, 834, 921>>>>, <<8140, <<919,
       921>>>>, <<8146, <<921, 776, 768>>>>, <<8147, <<921, 776, 769>>>>,
       <<8150, <<921, 834>>>>, <<8151, <<921, 776, 834>>>>, <<8162, <<933,
       776, 768>>>>, <<8163, <<933, 776, 769>>>>, <<8164, <<929, 787>>>>,
       <<8166, <<933, 834>>>>, <<8167, <<933, 776, 834>>>>, <<8178, <<8186,
       921>>>>, <<8179, <<937, 921>>>>, <<8180, <<911, 921>>>>, <<8182,
       <<937, 834>>>>, <<8183, <<937, 834, 921>>>>, <<8188, <<937, 921>>>>,
       <<64256, <<70, 70>>>>, <<64257, <<70, 73>>>>, <<64258, <<70, 76>>>>,
       <<64259, <<70, 70, 73>>>>, <<64260, <<70, 70, 76>>>>, <<64261, <<83,
       84>>>>, <<64262, <<83, 84>>>>, <<64275, <<1348, 1350>>>>, <<64276,
       <<1348, 1333>>>>, <<64277, <<1348, 1339>>>>, <<64278, <<1358,
       1350>>>>, <<64279, <<1348, 1341>>>> >>

\* str.upper() of one character: the code points it becomes (the runs are
\* listed by their first character, so a character before the second run
\* is in the first run or in none)
upper_char(c) ==
    LET InRun(run) == run[1] <= c /\ c <= run[2] /\ (c - run[1]) % run[3] = 0
    IN  IF c < UpperRuns[2][1]
        THEN IF InRun(UpperRuns[1]) THEN <<c + UpperRuns[1][4]>> ELSE <<c>>
        ELSE IF \E k \in DOMAIN UpperRuns : InRun(UpperRuns[k])
        THEN <<c + UpperRuns[CHOOSE k \in DOMAIN UpperRuns : InRun(UpperRuns[k])][4]>>
        ELSE IF \E k \in DOMAIN UpperSpecial : UpperSpecial[k][1] = c
        THEN UpperSpecial[CHOOSE k \in DOMAIN UpperSpecial : UpperSpecial[k][1] = c][2]
        ELSE <<c>>

\* str.upper()
RECURSIVE upper(_)
upper(s) == IF Len(s) = 0 THEN <<>> ELSE upper_char(Head(s)) \o upper(Tail(s))

\* sub in s, for a non-empty sub
contains(sub, s) ==
    \E k \in 1..(Len(s) - Len(sub) + 1) : SubSeq(s, k, k + Len(sub) - 1) = sub

\* s.replace(old, new): every non-overlapping occurrence, from the left
RECURSIVE replace(_, _, _)
replace(s, old, new) ==
    IF Len(s) < Len(old) THEN s
    ELSE IF SubSeq(s, 1, Len(old)) = old
         THEN new \o replace(SubSeq(s, Len(old) + 1, Len(s)), old, new)
         ELSE SubSeq(s, 1, 1) \o replace(Tail(s), old, new)

\* the number of non-overlapping occurrences of sub in s: s.count(sub)
RECURSIVE count(_, _)
count(s, sub) ==
    IF Len(s) < Len(sub) THEN 0
    ELSE IF SubSeq(s, 1, Len(sub)) = sub
         THEN 1 + count(SubSeq(s, Len(sub) + 1, Len(s)), sub)
         ELSE count(Tail(s), sub)

\* key in context
has(ctx, key) == key \in DOMAIN ctx

----------------------------------------------------------------------------
(* triple_i_protocol.py: Stage 1.  The values of a context are floats.     *)

\* TripleIProtocol.__init__: the configuration it keeps
TripleIProtocol(cfg) == [tag |-> "TripleIProtocol", config |-> cfg]

deletion_patterns ==
    <<Str("DELETE"), Str("DROP"), Str("REMOVE"), Str("ERASE"), Str("PURGE")>>

\* the marker that replaces each pattern: f"[{pattern}_BLOCKED]"
blocked ==
    [k \in DOMAIN deletion_patterns |->
        Str("[") \o deletion_patterns[k] \o Str("_BLOCKED]")]

\* mutant: the patterns are looked for as written, without upper()
_contains_deletion_attempt_cased(self, data) ==
    \E k \in DOMAIN deletion_patterns : contains(deletion_patterns[k], data)

\* any(pattern in data.upper() for pattern in deletion_patterns)
_contains_deletion_attempt(self, data) ==
    LET any(data_upper) ==
            \E k \in DOMAIN deletion_patterns :
                contains(deletion_patterns[k], data_upper)
    IN  any(upper(data))

\* the loop of _sanitize_deletion_attempt from the k-th pattern on
RECURSIVE sanitize_from(_, _)
sanitize_from(sanitized, k) ==
    IF k > Len(deletion_patterns) THEN sanitized
    ELSE sanitize_from(replace(sanitized, deletion_patterns[k],
                               blocked[k]), k + 1)

\* the patterns are replaced as written, in upper case
_sanitize_deletion_attempt(self, data) == sanitize_from(data, 1)

SANITIZED == "SANITIZED: Deletion attempt removed"
CORRECTED == "CORRECTED: Alignment enforced > separation"
WARNING == "WARNING: High coherence requires high density"
CLAMPED == "CLAMPED: dFruit/dt limited to 10.0"
FLAGGED == "FLAGGED: Repentance required for low QCI"

\* the float literals 0.1, 0.5, 1.5, 2.0, 5.0 and 10.0 of the rules
Tenth == Float(1, 10)
Half == Float(5, 10)
OneAndHalf == Float(15, 10)
Two == Float(2, 1)
Five == Float(5, 1)
Ten == Float(10, 1)

\* 3.14159 / 4
LowQci == FDiv(Float(314159, 100000), Float(4, 1))

\* rule 2: alignment < separation, both present
rule_alignment(ctx) ==
    /\ has(ctx, "alignment") /\ has(ctx, "separation")
    /\ FLt(ctx.alignment, ctx.separation)

\* rule 3: coherence > 1.5 and density < 2.0, both present
rule_density(ctx) ==
    /\ has(ctx, "coherence") /\ has(ctx, "density")
    /\ FGt(ctx.coherence, OneAndHalf) /\ FLt(ctx.density, Two)

\* rule 4: dfruit_dt > 10.0
rule_growth(ctx) == has(ctx, "dfruit_dt") /\ FGt(ctx.dfruit_dt, Ten)

\* rule 5: qci < 3.14159 / 4
rule_repentance(ctx) == has(ctx, "qci") /\ FLt(ctx.qci, LowQci)

\* internal_layer with rule 5 as the else branch of rule 4
internal_layer_exclusive(self, input_data, ctx) ==
    LET rule5(result, c, t, clamp) ==
            [result |-> result,
             transformations |->
                 IF ~clamp /\ rule_repentance(c) THEN Append(t, FLAGGED) ELSE t,
             context |-> c]
        rule4(result, c, t, clamp) ==
            rule5(result,
                  IF clamp THEN [c EXCEPT !.dfruit_dt = Ten] ELSE c,
                  IF clamp THEN Append(t, CLAMPED) ELSE t, clamp)
        rule3(result, c, t) ==
            rule4(result, c, IF rule_density(c) THEN Append(t, WARNING) ELSE t,
                  rule_growth(c))
        rule2(result, t, correct) ==
            rule3(result,
                  IF correct
                  THEN [ctx EXCEPT !.alignment = FAdd(ctx.separation, Tenth)]
                  ELSE ctx,
                  IF correct THEN Append(t, CORRECTED) ELSE t)
        rule1(sanitize) ==
            rule2(IF sanitize THEN _sanitize_deletion_attempt(self, input_data)
                  ELSE input_data,
                  IF sanitize THEN <<SANITIZED>> ELSE <<>>,
                  rule_alignment(ctx))
    IN  rule1(_contains_deletion_attempt(self, input_data))

\* internal_layer with a rule 4 that reports the clamp and leaves dfruit_dt
internal_layer_unclamped(self, input_data, ctx) ==
    LET rule5(result, c, t) ==
            [result |-> result,
             transformations |-> IF rule_repentance(c) THEN Append(t, FLAGGED) ELSE t,
             context |-> c]
        rule4(result, c, t, clamp) ==
            rule5(result, c, IF clamp THEN Append(t, CLAMPED) ELSE t)
        rule3(result, c, t) ==
            rule4(result, c, IF rule_density(c) THEN Append(t, WARNING) ELSE t,
                  rule_growth(c))
        rule2(result, t, correct) ==
            rule3(result,
                  IF correct
                  THEN [ctx EXCEPT !.alignment = FAdd(ctx.separation, Tenth)]
                  ELSE ctx,
                  IF correct THEN Append(t, CORRECTED) ELSE t)
        rule1(sanitize) ==
            rule2(IF sanitize THEN _sanitize_deletion_attempt(self, input_data)
                  ELSE input_data,
                  IF sanitize THEN <<SANITIZED>> ELSE <<>>,
                  rule_alignment(ctx))
    IN  rule1(_contains_deletion_attempt(self, input_data))

\* internal_layer: the text and the transformations returned, and the
\* context mapping as the call leaves it (it is the caller's object).  The
\* five rules run one after the other, each on the mapping the rules before
\* it left
internal_layer(self, input_data, ctx) ==
    LET rule5(result, c, t) ==
            [result |-> result,
             transformations |-> IF rule_repentance(c) THEN Append(t, FLAGGED) ELSE t,
             context |-> c]
        rule4(result, c, t, clamp) ==
            rule5(result,
                  IF clamp THEN [c EXCEPT !.dfruit_dt = Ten] ELSE c,
                  IF clamp THEN Append(t, CLAMPED) ELSE t)
        rule3(result, c, t) ==
            rule4(result, c, IF rule_density(c) THEN Append(t, WARNING) ELSE t,
                  rule_growth(c))
        rule2(result, t, correct) ==
            rule3(result,
                  IF correct
                  THEN [ctx EXCEPT !.alignment = FAdd(ctx.separation, Tenth)]
                  ELSE ctx,
                  IF correct THEN Append(t, CORRECTED) ELSE t)
        rule1(sanitize) ==
            rule2(IF sanitize THEN _sanitize_deletion_attempt(self, input_data)
                  ELSE input_data,
                  IF sanitize THEN <<SANITIZED>> ELSE <<>>,
                  rule_alignment(ctx))
    IN  rule1(_contains_deletion_attempt(self, input_data))

----------------------------------------------------------------------------
(* triple_i_protocol.py: Stage 2 *)

\* alignment / (separation + 1): the float returned, or the
\* ZeroDivisionError of the division when separation + 1 is 0.0
_calculate_flipped_coherence(self, separation, alignment) ==
    LET quotient(divisor) ==
            IF FIsZero(divisor) THEN [raised |-> "ZeroDivisionError", ret |-> None]
            ELSE [raised |-> "", ret |-> FDiv(alignment, divisor)]
    IN  quotient(FAdd(separation, One))

\* the sequence of the strings that hold, in the order listed
Matches(checks) ==
    LET RECURSIVE from(_)
        from(k) == IF k > Len(checks) THEN <<>>
                   ELSE (IF checks[k][1] THEN <<checks[k][2]>> ELSE <<>>) \o from(k + 1)
    IN  from(1)

_detect_contradictions(self, ctx) ==
    Matches(<< <<FGt(get(ctx, "coherence", Zero), OneAndHalf)
                    /\ FLt(get(ctx, "density", Zero), Two),
                 "High coherence with low density">>,
               <<FGt(get(ctx, "dfruit_dt", Zero), Five)
                    /\ FLt(get(ctx, "alignment", Zero), One),
                 "High growth with low alignment">>,
               <<FGt(get(ctx, "qci", Zero), OneAndHalf)
                    /\ FLt(get(ctx, "tif", Zero), Half),
                 "High QCI with low TIF">> >>)

sql_keywords == <<Str("SELECT"), Str("INSERT"), Str("UPDATE"), Str("DELETE")>>

\* the encodings looked for: '%' and '\\x'
encodings == <<Str("%"), Str("\\x")>>

_detect_hidden_patterns(self, data) ==
    LET sql(data_upper) ==
            \E k \in DOMAIN sql_keywords : contains(sql_keywords[k], data_upper)
    IN  Matches(<< <<\E k \in 1..Len(ascii_lowercase) :
                        LET char == CharAt(ascii_lowercase, k)
                        IN  contains(char \o char \o char, data),
                     "Repeated character sequence detected">>,
                   <<contains(encodings[1], data) \/ contains(encodings[2], data),
                     "Suspicious encoding detected">>,
                   <<sql(upper(data)), "SQL-like pattern detected">> >>)

_check_inverse_axioms(self, ctx) ==
    Matches(<< <<FGt(get(ctx, "coherence", Zero), OneAndHalf)
                    /\ FGt(get(ctx, "separation", Zero), Two),
                 "Coherence-separation inverse violated">>,
               <<FGt(get(ctx, "alignment", Zero), OneAndHalf)
                    /\ FLt(get(ctx, "dfruit_dt", Zero), Zero),
                 "Alignment-growth inverse violated">> >>)

\* [f"{prefix}{x}" for x in xs]
Prefixed(prefix, xs) == [k \in DOMAIN xs |-> prefix \o xs[k]]

DETECTED == "DETECTED: Flipped perspective shows higher coherence"

\* inverse_layer that extends the list it was handed, without copy()
inverse_layer_in_place(self, input_data, ctx, internal_transformations) ==
    LET returned(transformations) ==
            [raised |-> "", result |-> input_data, transformations |-> transformations,
             context |-> ctx, internal_transformations |-> transformations]
        layer(flipped) ==
            IF flipped.raised # ""
            THEN [raised |-> flipped.raised, result |-> input_data,
                  transformations |-> internal_transformations,
                  context |-> ctx,
                  internal_transformations |-> internal_transformations]
            ELSE returned((IF flipped.ret # None
                              /\ FGt(flipped.ret, get(ctx, "coherence", Zero))
                           THEN Append(internal_transformations, DETECTED)
                           ELSE internal_transformations)
                          \o Prefixed("CONTRADICTION: ",
                                      _detect_contradictions(self, ctx))
                          \o Prefixed("PATTERN: ",
                                      _detect_hidden_patterns(self, input_data))
                          \o Prefixed("INVERSE_VIOLATION: ",
                                      _check_inverse_axioms(self, ctx)))
    IN  layer(IF has(ctx, "alignment") /\ has(ctx, "separation")
              THEN _calculate_flipped_coherence(self, ctx.separation, ctx.alignment)
              ELSE [raised |-> "", ret |-> None])

\* inverse_layer: the exception raised ("" when none), the text and the
\* transformations returned, and the two mutable arguments as the call
\* leaves them: the context mapping and the list Stage 1 produced
inverse_layer(self, input_data, ctx, internal_transformations) ==
    LET returned(transformations) ==
            [raised |-> "", result |-> input_data, transformations |-> transformations,
             context |-> ctx, internal_transformations |-> internal_transformations]
        layer(flipped) ==
            IF flipped.raised # ""
            THEN [raised |-> flipped.raised, result |-> input_data,
                  transformations |-> internal_transformations,
                  context |-> ctx,
                  internal_transformations |-> internal_transformations]
            ELSE returned((IF flipped.ret # None
                              /\ FGt(flipped.ret, get(ctx, "coherence", Zero))
                           THEN Append(internal_transformations, DETECTED)
                           ELSE internal_transformations)
                          \o Prefixed("CONTRADICTION: ",
                                      _detect_contradictions(self, ctx))
                          \o Prefixed("PATTERN: ",
                                      _detect_hidden_patterns(self, input_data))
                          \o Prefixed("INVERSE_VIOLATION: ",
                                      _check_inverse_axioms(self, ctx)))
    IN  layer(IF has(ctx, "alignment") /\ has(ctx, "separation")
              THEN _calculate_flipped_coherence(self, ctx.separation, ctx.alignment)
              ELSE [raised |-> "", ret |-> None])

----------------------------------------------------------------------------
(* triple_i_protocol.py: Stage 3 *)

(* hashlib.sha256 is a random oracle here: a digest is the term that names   *)
(* what was hashed and how many times, together with its first 8 hex        *)
(* characters, which the oracle answers.  now = <<t1, t2, t3>> are the three *)
(* readings of datetime.utcnow() within one call; hex8 holds the oracle's   *)
(* answers for the lock and for the output hash.                            *)

\* hashlib.sha256(payload.encode()).hexdigest()
sha256(payload, prefix) ==
    [tag |-> "sha256", of |-> payload, rounds |-> 1, hex8 |-> prefix]

\* hashlib.sha256(lock.encode()).hexdigest() of a digest, n times over; the
\* first characters of the digests in between are never read
RECURSIVE rehash(_, _, _)
rehash(lock, n, prefix) ==
    IF n = 0 THEN lock
    ELSE rehash([lock EXCEPT !.rounds = @ + 1, !.hex8 = prefix], n - 1, prefix)

\* _calculate_invariant_lock: json.dumps(..., sort_keys=True) of the payload
\* is the record itself
_calculate_invariant_lock(self, data, ctx, now, hex8) ==
    LET combined == [data |-> data,
                     context |-> ctx,
                     timestamp |-> now[1],
                     covenant_multiplier |-> self.config.COVENANT_MULTIPLIER]
        lock == sha256(combined, hex8.lock)
    IN  rehash(lock, 5, hex8.lock)

\* lock.startswith(output_hash[:8])
_verify_invariant(self, lock, output_hash) == lock.hex8 = output_hash.hex8

\* mutant: the status does not follow the verification
invariant_status_locked(invariant_valid) == "LOCKED"

\* "LOCKED" if invariant_valid else "VERIFICATION_FAILED"
invariant_status(invariant_valid) ==
    IF invariant_valid THEN "LOCKED" ELSE "VERIFICATION_FAILED"

\* invariant_layer: the TripleIResult, and the lock and the locked output
\* that went into it
invariant_layer(self, input_data, ctx, all_transformations, now, hex8) ==
    LET input_hash == sha256(input_data, hex8.input)
        invariant_lock == _calculate_invariant_lock(self, input_data, ctx, now, hex8)
        locked_output == [data |-> input_data,
                          context |-> ctx,
                          transformations |-> all_transformations,
                          invariant_lock |-> invariant_lock,
                          timestamp |-> now[2]]
        output_hash == sha256(locked_output, hex8.output)
        invariant_valid == _verify_invariant(self, invariant_lock, output_hash)
    IN  [result |->
             [tag |-> "TripleIResult",
              input_hash |-> input_hash,
              internal_validated |-> Len(all_transformations) > 0,
              inverse_applied |->
                  \E k \in DOMAIN all_transformations :
                      \/ contains("INVERSE", all_transformations[k])
                      \/ contains("PATTERN", all_transformations[k])
                      \/ contains("CONTRADICTION", all_transformations[k]),
              invariant_locked |-> invariant_valid,
              output_hash |-> output_hash,
              transformations |-> all_transformations,
              timestamp |-> now[3],
              status |-> invariant_status(invariant_valid)],
         invariant_lock |-> invariant_lock,
         locked_output |-> locked_output]

\* the stages of process, in the order called
stages == <<"internal_layer", "inverse_layer", "invariant_layer">>

\* process once Stage 1 and Stage 2 have returned s1 and s2: the exception of
\* Stage 2 goes to the caller, otherwise Stage 3 runs
process_invariant(self, s1, s2, now, hex8) ==
    LET locked(s3) ==
            [raised |-> "", ret |-> s3.result, context |-> s2.context,
             calls |-> stages,
             trace |-> [internal |-> s1, inverse |-> s2, invariant |-> s3]]
    IN  IF s2.raised # ""
        THEN [raised |-> s2.raised, ret |-> None, context |-> s2.context,
              calls |-> SubSeq(stages, 1, 2),
              trace |-> [internal |-> s1, inverse |-> s2]]
        ELSE locked(invariant_layer(self, s2.result, s2.context, s2.transformations,
                                    now, hex8))

\* process: the exception raised or the TripleIResult returned, the context
\* mapping as the call leaves it, the stages entered and what each stage saw
\* and produced
process(self, input_data, ctx, now, hex8) ==
    LET third(s1, s2) == process_invariant(self, s1, s2, now, hex8)
        second(s1) ==
            third(s1, inverse_layer(self, s1.result, s1.context, s1.transformations))
    IN  second(internal_layer(self, input_data, ctx))

----------------------------------------------------------------------------
(* api.py *)

\* POST /analyze: operational_flow returns a str as its first value, so
\* result.get('status', 'UNKNOWN') raises AttributeError, which the handler
\* catches and turns into HTTPException(status_code=400, detail=str(e))
analyze_with_star_engine(self, input_data, params) ==
    LET response(r) ==
            [raised |-> "HTTPException",
             ret |-> [status_code |-> 400, detail |-> "'str' object has no attribute 'get'"],
             calls |-> r.calls,
             metrics |-> r.metrics,
             log |-> IF r.ret[2] = None THEN <<>> ELSE repentance_steps]
    IN  {response(r) : r \in operational_flow(self, input_data, params)}

----------------------------------------------------------------------------
(* core.py: the first StarEngine, its constants written into __init__ *)

\* core.StarEngine.__init__
core_StarEngine ==
    [tag |-> "core.StarEngine",
     HARMONY_RIDGE |-> Float(167, 100),
     DYNAMIC_INVARIANT |-> Float(189, 100),
     DENSITY_THRESHOLD |-> Float(334, 100),
     COVENANT_MULTIPLIER |-> Float(5, 1),
     QCI_TARGET |-> FDiv(pi, Float(2, 1))]

core_calculate_dfruit_dt(self, alignment, separation, dt) ==
    IF FIsZero(dt) THEN Zero ELSE FDiv(FSub(alignment, separation), dt)

core_calculate_tif(self, omega_truth, target_falsehood) ==
    FAbs(FSub(omega_truth, target_falsehood))

\* core.StarEngine.calculate_qci: the floats it can return
core_calculate_qci(self, tif, resistance) ==
    IF FIsZero(resistance)
    THEN {IF FGt(tif, Zero) THEN self.QCI_TARGET ELSE Zero}
    ELSE atan(FDiv(tif, resistance))

core_verify_density(self, i1, i2, i3, i4) ==
    LET ge(density) == <<FGe(density, self.DENSITY_THRESHOLD), density>>
    IN  ge(FMul(FMul(FMul(i1, i2), i3), i4))

\* the four steps, as a list of strings
core_repentance_protocol(self, sin_patterns) ==
    << <<"Exposed: ", sin_patterns>>,
       "Recompiled: falsehood -> truth",
       "Purged: system logs cleared",
       "Reset: returned to Aletheia baseline" >>

\* qci <= self.QCI_TARGET * 0.5
core_below_target_le(self, qci) == FLe(qci, FMul(self.QCI_TARGET, Float(5, 10)))

\* qci < (self.QCI_TARGET * 0.5)
core_below_target(self, qci) == FLt(qci, FMul(self.QCI_TARGET, Float(5, 10)))

\* core.StarEngine.operational_flow, the outcomes it can have: the message,
\* in its parts, and the log
core_operational_flow(self, input_data, params) ==
    LET tif_params == get(params, "tif", <<One, Zero>>)
        first      == <<"calculate_dfruit_dt", "calculate_tif", "calculate_qci">>
        density(dfruit, qci, vd) ==
            IF ~vd[1]
            THEN [ret |-> << <<"REJECTED: Density ", vd[2],
                               " below threshold ", self.DENSITY_THRESHOLD>>,
                             None >>,
                  calls |-> Append(first, "verify_density")]
            ELSE [ret |-> << <<"RELEASED: Density ", vd[2],
                               ", QCI ", Format4(qci),
                               ", dFruit/dt ", Format4(dfruit)>>,
                             None >>,
                  calls |-> Append(first, "verify_density")]
        gate(dfruit, qci) ==
            IF core_below_target(self, qci)
            THEN [ret |-> << <<"REJECTED: QCI below threshold. Triggering Repentance.">>,
                             core_repentance_protocol(self, "Low QCI detected") >>,
                  calls |-> Append(first, "repentance_protocol")]
            ELSE density(dfruit, qci,
                         core_verify_density(self, get(params, "i1", One),
                                             get(params, "i2", One),
                                             get(params, "i3", One),
                                             get(params, "i4", One)))
        flow(dfruit) ==
            {gate(dfruit, qci) :
                qci \in core_calculate_qci(self,
                                           core_calculate_tif(self, tif_params[1],
                                                              tif_params[2]),
                                           get(params, "resistance", One))}
    IN  flow(core_calculate_dfruit_dt(self, get(params, "alignment", Zero),
                                      get(params, "separation", Zero),
                                      get(params, "dt", One)))

----------------------------------------------------------------------------
(* The inputs of the model. *)

Halves(lo, hi) == {Float(k, 2) : k \in lo..hi}

\* resistance, and the tif of a direct calculate_qci call: -0.5 .. MaxHalves/2,
\* the pair 0.7, 0.29 whose angle lies just under 0.75 * QCI_TARGET, and the
\* pair 3.79, 0.5 whose angle lies halfway between two floats, where
\* math.atan can return either
ResVals == Halves(-1, MaxHalves) \cup {Float(29, 100)}
TifVals == Halves(-1, MaxHalves) \cup {Float(7, 10), Float(379, 100)}
\* the (omega_truth, target_falsehood) pairs of operational_flow: tif 1, 0, 2
\* and 3.79
TifPairs == {<<One, Zero>>, <<One, One>>,
             <<Float(-1, 1), One>>, <<Float(379, 100), Zero>>}
SepVals == {One}
\* the direct calls of calculate_dfruit_dt: alignment, separation and dt
DirectCalls == {Zero, Float(2, 1)} \X SepVals \X {Zero, One, Float(-1, 1), Float(3, 1)}
\* i-powers: -0.5 .. MaxIHalves/2, and 3.34
I1Vals == Halves(-1, MaxIHalves)
I2Vals == {One}
I3Vals == {Float(15, 10), Float(334, 100)}
I4Vals == {One}
ScoreVals == {Float(k, 100) : k \in {-100, -1, 0, 100, 150, 167, 168, 180, 195}}

FullParams ==
    [alignment : {Float(2, 1)}, separation : SepVals, dt : {Zero, Float(-1, 1)},
     tif : TifPairs,
     resistance : ResVals, i1 : I1Vals, i2 : I2Vals, i3 : I3Vals, i4 : I4Vals]

\* a caller that passes only the i-powers, and one that passes nothing
PowerParams ==
    [i1 : {Float(15, 10)}, i2 : {Float(15, 10)}, i3 : {Float(15, 10)},
     i4 : {One, Float(15, 10)}]
EmptyParams == [k \in {} |-> 0]
\* the requests of /analyze: the three verdicts of operational_flow
AnalysisParams == PowerParams \cup {EmptyParams, [tif |-> <<One, One>>]}

\* the engines the program can construct: one per configuration loaded from
\* an environment or installed by set_config
Engines ==
    {StarEngine(from_env(e)) : e \in Environments} \cup {StarEngine(StarEngineConfig)}

\* the elements of S, listed
Enumerated(S) == {a : a \in S}

\* the results of calculate_qci, operational_flow and /analyze over the
\* engines and the inputs above, computed once
QciTable ==
    [self \in Engines |->
        [tif \in TifVals |->
            [resistance \in ResVals |-> calculate_qci(self, tif, resistance)]]]
FlowTable ==
    [self \in Engines |->
        [params \in Enumerated(FullParams \cup PowerParams \cup {EmptyParams})
            |-> operational_flow(self, "Test input", params)]]
AnalyzeTable ==
    [self \in Engines |->
        [params \in Enumerated(AnalysisParams)
            |-> analyze_with_star_engine(self, "Test input", params)]]

----------------------------------------------------------------------------
(* The state machine: one action per call into config.py or StarEngine. *)

Call(op, args, raised, ret, calls, metrics, log) ==
    [op |-> op, args |-> args, raised |-> raised, ret |-> ret,
     calls |-> calls, metrics |-> metrics, log |-> log]

Init ==
    /\ env \in Environments
    /\ _config = None
    /\ engine = None
    /\ lastCall = Call("", <<>>, "", None, <<>>, None, <<>>)
    /\ protocol = None
    /\ context = None
    /\ clock = 0

\* config.get_config()
GetConfig ==
    /\ _config' = get_config(_config, env)
    /\ lastCall' = Call("get_config", <<>>, "", _config', <<>>, None, <<>>)
    /\ UNCHANGED <<env, engine, tripleVars>>

\* config.set_config(StarEngineConfig())
SetConfig ==
    /\ _config' = StarEngineConfig
    /\ lastCall' = Call("set_config", <<StarEngineConfig>>, "", None, <<>>, None, <<>>)
    /\ UNCHANGED <<env, engine, tripleVars>>

\* config.reset_config()
ResetConfig ==
    /\ _config' = None
    /\ lastCall' = Call("reset_config", <<>>, "", None, <<>>, None, <<>>)
    /\ UNCHANGED <<env, engine, tripleVars>>

\* engine = StarEngine()
NewEngine ==
    /\ _config' = get_config(_config, env)
    /\ engine' = StarEngine(_config')
    /\ lastCall' = Call("StarEngine", <<>>, "", None, <<>>, None, <<>>)
    /\ UNCHANGED <<env, tripleVars>>

\* monitor_performance: every engine method first calls get_config()
Monitored ==
    /\ engine # None
    /\ _config' = get_config(_config, env)
    /\ UNCHANGED <<env, engine, tripleVars>>

GetDynamicInvariant ==
    \E coherence_score \in ScoreVals :
        /\ Monitored
        /\ \E r \in {get_dynamic_invariant(engine, coherence_score)} :
              lastCall' = Call("get_dynamic_invariant", <<coherence_score>>,
                               r.raised, r.ret, <<>>, None, <<>>)

CalculateDfruitDt ==
    \E call \in DirectCalls :
        /\ Monitored
        /\ lastCall' = Call("calculate_dfruit_dt", call, "",
                            calculate_dfruit_dt(engine, call[1], call[2], call[3]),
                            <<>>, None, <<>>)

CalculateTif ==
    \E pair \in TifPairs :
        /\ Monitored
        /\ lastCall' = Call("calculate_tif", pair, "",
                            calculate_tif(engine, pair[1], pair[2]), <<>>, None, <<>>)

CalculateQci ==
    \E tif \in TifVals, resistance \in ResVals :
        /\ Monitored
        /\ \E r \in QciTable[engine][tif][resistance] :
              lastCall' = Call("calculate_qci", <<tif, resistance>>, "", r, <<>>,
                               None, <<>>)

VerifyDensity ==
    \E i1 \in I1Vals, i2 \in I2Vals, i3 \in I3Vals, i4 \in I4Vals :
        /\ Monitored
        /\ lastCall' = Call("verify_density", <<i1, i2, i3, i4>>, "",
                            verify_density(engine, i1, i2, i3, i4), <<>>, None, <<>>)

RepentanceProtocol ==
    \E sin_patterns \in {"Low QCI detected", "Test sin pattern"} :
        /\ Monitored
        /\ lastCall' = Call("repentance_protocol", <<sin_patterns>>, "",
                            repentance_protocol(engine, sin_patterns),
                            <<>>, None, repentance_steps)

Flow(params) ==
    /\ Monitored
    /\ \E r \in FlowTable[engine][params] :
          lastCall' = Call("operational_flow", params, "", r.ret, r.calls, r.metrics,
                           IF r.ret[2] = None THEN <<>> ELSE repentance_steps)

OperationalFlow == \E params \in FullParams : Flow(params)

OperationalFlowPartial == \E params \in PowerParams \cup {EmptyParams} : Flow(params)

\* POST /analyze with the module's engine
Analyze ==
    \E params \in AnalysisParams :
        /\ Monitored
        /\ \E r \in AnalyzeTable[engine][params] :
              lastCall' = Call("analyze", params, r.raised, r.ret, r.calls,
                               r.metrics, r.log)

Next ==
    \/ GetConfig
    \/ SetConfig
    \/ ResetConfig
    \/ NewEngine
    \/ GetDynamicInvariant
    \/ CalculateDfruitDt
    \/ CalculateTif
    \/ CalculateQci
    \/ VerifyDensity
    \/ RepentanceProtocol
    \/ OperationalFlow
    \/ OperationalFlowPartial
    \/ Analyze

Spec == Init /\ [][Next]_vars

----------------------------------------------------------------------------
(* The Triple I protocol and its caller. *)

\* the texts handed to the protocol
\* (U+017F is the long s and U+0131 the dotless i, which upper() turns
\* into S and I; U+00DF is the sharp s, which it turns into SS)
Texts ==
    {Str("hello"), Str("DELETE it"), Str("delete it"), Str("DROP DELETE"),
     Str("DELETE DELETE"), Str("Purge aaa%"), Str("select x"),
     Str("era") \o <<383>> \o Str("e"),
     <<383>> \o Str("elect x"),
     <<305>> \o Str("nsert ") \o <<223>>}

\* the context mappings a caller builds
Contexts ==
    LET F(k) == Float(k, 100)
    IN  {[k \in {} |-> 0]}
            \cup [alignment : {F(50), F(200)}, separation : {F(100), F(-100)}]
            \cup [alignment : {F(10)}, separation : {F(20)},
                  dfruit_dt : {F(1500)}, qci : {F(50)}]
            \cup [alignment : {F(15)}, separation : {F(-175)}, coherence : {F(-20)}]
            \cup [coherence : {F(160)}, density : {F(100), F(300)}]
            \cup [dfruit_dt : {F(1500), F(1000)}]
            \cup [qci : {F(78), F(79)}, tif : {F(10)}]
            \cup [alignment : {F(200)}, separation : {F(100)}, coherence : {F(50)}]
            \cup [alignment : {F(50)}, separation : {F(100)},
                  coherence : {F(160), F(0)}, density : {F(100)},
                  dfruit_dt : {F(1500), F(-100)}, qci : {F(50)}]

\* how far the clock advances from the first reading of one call to the
\* second, and from the second to the third
Advances == {<<0, 0>>, <<0, 1>>, <<1, 0>>, <<1, 1>>}

InitTriple ==
    /\ env = [k \in {} |-> 0]
    /\ _config = None
    /\ engine = None
    /\ lastCall = Call("", <<>>, "", None, <<>>, None, <<>>)
    /\ protocol = None
    /\ context \in Contexts
    /\ clock = 0

\* protocol = TripleIProtocol()
NewProtocol ==
    /\ _config' = get_config(_config, env)
    /\ protocol' = TripleIProtocol(_config')
    /\ lastCall' = Call("TripleIProtocol", <<>>, "", None, <<>>, None, <<>>)
    /\ UNCHANGED <<env, engine, context, clock>>

\* the caller builds a new context mapping
NewContext ==
    /\ context' \in Contexts
    /\ lastCall' = Call("dict", <<>>, "", context', <<>>, None, <<>>)
    /\ UNCHANGED <<env, _config, engine, protocol, clock>>

\* protocol.internal_layer(input_data, context) on the caller's mapping
InternalLayer ==
    \E input_data \in Texts :
        /\ protocol # None
        /\ \E r \in {internal_layer(protocol, input_data, context)} :
            /\ context' = r.context
            /\ lastCall' = Call("internal_layer", <<input_data, context>>, "",
                                <<r.result, r.transformations>>, <<>>, None, <<>>)
            /\ UNCHANGED <<env, _config, engine, protocol, clock>>

\* the outcomes of process(input_data, ctx) when the clock reads t1 at its
\* first reading: one for every way the clock advances and the oracle
\* answers (the first 8 hex characters of the digests), each with the last
\* reading of the clock
ProcessOutcomes(self, input_data, ctx, t1) ==
    LET outcomes(s1, s2) ==
            {[r |-> process_invariant(self, s1, s2,
                                      <<t1, t1 + advance[1],
                                        t1 + advance[1] + advance[2]>>, hex8),
              t3 |-> t1 + advance[1] + advance[2]] :
                advance \in {a \in Advances : t1 + a[1] + a[2] <= MaxClock},
                hex8 \in [input : {"9f86d081"}, lock : {"2cf24dba"},
                          output : {"2cf24dba", "486ea462"}]}
        second(s1) ==
            outcomes(s1, inverse_layer(self, s1.result, s1.context, s1.transformations))
    IN  second(internal_layer(self, input_data, ctx))

\* protocol.process(input_data, context) on the caller's mapping, while the
\* clock advances
Process ==
    \E input_data \in Texts :
        /\ protocol # None
        /\ \E o \in ProcessOutcomes(protocol, input_data, context, clock) :
            /\ context' = o.r.context
            /\ clock' = o.t3
            /\ lastCall' = Call("process", <<input_data, context>>, o.r.raised,
                                o.r.ret, o.r.calls, o.r.trace, <<>>)
            /\ UNCHANGED <<env, _config, engine, protocol>>

\* the wall clock advances between two calls
Tick ==
    /\ clock < MaxClock
    /\ clock' = clock + 1
    /\ UNCHANGED <<env, _config, engine, lastCall, protocol, context>>

NextTriple ==
    \/ NewProtocol
    \/ NewContext
    \/ InternalLayer
    \/ Process
    \/ Tick

SpecTriple == InitTriple /\ [][NextTriple]_vars

(***************************************************************************)
(* Stage 1 on its own: the caller holds any mapping over the keys Stage 1  *)
(* reads and calls internal_layer on it.                                   *)
(***************************************************************************)
\* the mappings over every subset of the keys the rules of internal_layer
\* look up, values on both sides of
\* each rule's threshold
Stage1Contexts ==
    LET F(k) == Float(k, 100)
        absent == None
        choices == [alignment : {absent, F(10), F(200)},
                    separation : {absent, F(20)},
                    coherence : {absent, F(160), F(100)},
                    density : {absent, F(100), F(300)},
                    dfruit_dt : {absent, F(1500), F(500)},
                    qci : {absent, F(50), F(100)}]
    IN  {[k \in {key \in DOMAIN c : c[key] # absent} |-> c[k]] : c \in choices}

InitStage1 ==
    /\ env = [k \in {} |-> 0]
    /\ _config = None
    /\ engine = None
    /\ lastCall = Call("", <<>>, "", None, <<>>, None, <<>>)
    /\ protocol = None
    /\ context \in Stage1Contexts
    /\ clock = 0

NextStage1 ==
    \/ NewProtocol
    \/ InternalLayer

SpecStage1 == InitStage1 /\ [][NextStage1]_vars

(***************************************************************************)
(* The two engines side by side, under the default configuration: a caller *)
(* builds the engine of core_improved.py and hands the same parameter maps *)
(* to it and to the engine of core.py.                                     *)
(***************************************************************************)
InitEngines ==
    /\ env = [k \in {} |-> 0]
    /\ _config = None
    /\ engine = None
    /\ lastCall = Call("", <<>>, "", None, <<>>, None, <<>>)
    /\ protocol = None
    /\ context = None
    /\ clock = 0

\* the results of core.StarEngine().operational_flow over the same parameter
\* maps, computed once
CoreFlowTable ==
    [params \in Enumerated(FullParams \cup PowerParams \cup {EmptyParams})
        |-> core_operational_flow(core_StarEngine, "Test input", params)]

\* core.StarEngine().operational_flow(input_data, params)
CoreOperationalFlow ==
    \E params \in FullParams \cup PowerParams \cup {EmptyParams} :
        \E r \in CoreFlowTable[params] :
            /\ lastCall' = Call("core.operational_flow", params, "", r.ret, r.calls,
                                None, <<>>)
            /\ UNCHANGED <<env, _config, engine, tripleVars>>

NextEngines ==
    \/ NewEngine
    \/ OperationalFlow
    \/ OperationalFlowPartial
    \/ CoreOperationalFlow

SpecEngines == InitEngines /\ [][NextEngines]_vars

----------------------------------------------------------------------------
(* What the last call shows. *)

IsFlow == lastCall.op = "operational_flow"
IsRepentance == lastCall.op = "repentance_protocol"
IsInvariantCall == lastCall.op = "get_dynamic_invariant"
IsQciCall == lastCall.op = "calculate_qci"

\* the verdict of an operational_flow call: the head of its message
FlowVerdict == Head(lastCall.ret[1])
LowCoherence == "REJECTED: QCI below threshold. Triggering Repentance."
LowDensity == "REJECTED: Density "
Released == "RELEASED: Density "
FlowLogs == lastCall.ret[2]
FlowCalled(method) == \E k \in DOMAIN lastCall.calls : lastCall.calls[k] = method

\* the metric set of the last operational_flow call, defaults filled in
\* a finite float: zero, or a mantissa of exactly 53 bits
IsFinite(a) ==
    /\ DOMAIN a = {"neg", "m", "e"}
    /\ a.neg \in BOOLEAN
    /\ a.m = <<>> \/ BBitLen(a.m) = 53
ArgDt == get(lastCall.args, "dt", One)
ArgResistance == get(lastCall.args, "resistance", One)
ArgTruthGap ==
    LET t == get(lastCall.args, "tif", <<One, Zero>>) IN FAbs(FSub(t[1], t[2]))
ArgDensity ==
    FMul(FMul(FMul(get(lastCall.args, "i1", One), get(lastCall.args, "i2", One)),
              get(lastCall.args, "i3", One)),
         get(lastCall.args, "i4", One))

----------------------------------------------------------------------------
(* C1: in operational_flow, a coherence index strictly below the repentance *)
(* threshold returns the low-coherence rejection with a correction record   *)
(* and verify_density is not called; an index equal to the threshold does   *)
(* not trigger the gate.                                                    *)
C1_CoherenceGate ==
    IsFlow =>
        /\ FLt(lastCall.metrics.qci, engine.config.REPENTANCE_TRIGGER_THRESHOLD) =>
              /\ FlowVerdict = LowCoherence
              /\ FlowLogs # None
              /\ FlowLogs.status = "REPENTANCE_COMPLETE"
              /\ FlowCalled("repentance_protocol")
              /\ ~FlowCalled("verify_density")
        /\ FEq(lastCall.metrics.qci, engine.config.REPENTANCE_TRIGGER_THRESHOLD) =>
              /\ FlowVerdict # LowCoherence
              /\ FlowLogs = None
              /\ FlowCalled("verify_density")

\* the gate fires for a positive ratio below 1
C1_Witness ==
    /\ IsFlow
    /\ FGt(ArgResistance, Zero)
    /\ FGt(ArgTruthGap, Zero)
    /\ FLt(lastCall.metrics.qci, engine.config.REPENTANCE_TRIGGER_THRESHOLD)
    /\ FlowVerdict = LowCoherence

(* C2: when the coherence gate passes, the verdict is RELEASED exactly when *)
(* i1*i2*i3*i4 >= densityThreshold (equality passes) and the low-density    *)
(* rejection otherwise; no correction record is returned.                   *)
C2_DensityGate ==
    (IsFlow /\ FGe(lastCall.metrics.qci, engine.config.REPENTANCE_TRIGGER_THRESHOLD)) =>
        /\ FlowLogs = None
        /\ FlowVerdict \in {Released, LowDensity}
        /\ FlowVerdict = Released
              <=> FGe(ArgDensity, engine.config.DENSITY_THRESHOLD)
        /\ lastCall.ret[1][2] = ArgDensity

\* RELEASED with a density exactly at the threshold
C2_Witness ==
    /\ IsFlow
    /\ FlowVerdict = Released
    /\ FEq(ArgDensity, engine.config.DENSITY_THRESHOLD)

(* C3: operational_flow is total: it raises nothing and returns one of the  *)
(* three verdicts, also for dt = 0 and resistance = 0; with dt = 0 the       *)
(* growth rate is 0, with resistance = 0 the coherence index is qciTarget   *)
(* when truthGap > 0 and 0 when truthGap = 0.                               *)
C3_Total ==
    IsFlow =>
        /\ lastCall.raised = ""
        /\ FlowVerdict \in {Released, LowDensity, LowCoherence}
        /\ FIsZero(ArgDt) => FIsZero(lastCall.metrics.dfruit)
        /\ FIsZero(ArgResistance) =>
              FEq(lastCall.metrics.qci,
                  IF FGt(ArgTruthGap, Zero) THEN engine.config.QCI_TARGET ELSE Zero)

\* a call with dt = 0 and resistance = 0 that was released
C3_Witness ==
    /\ IsFlow
    /\ FIsZero(ArgDt)
    /\ FIsZero(ArgResistance)
    /\ FGt(ArgTruthGap, Zero)
    /\ FlowVerdict = Released

(* C4: for every truthGap and every resistance the pipeline accepts, of    *)
(* either sign, the coherence index computed by calculate_qci lies in       *)
(* [0, qciTarget].  Stated for the default configuration.                   *)
C4_QciInRange ==
    engine # None /\ engine.config = StarEngineConfig =>
        /\ IsQciCall =>
              /\ FGe(lastCall.ret.qci, Zero)
              /\ FLe(lastCall.ret.qci, engine.config.QCI_TARGET)
        /\ IsFlow =>
              /\ FGe(lastCall.metrics.qci, Zero)
              /\ FLe(lastCall.metrics.qci, engine.config.QCI_TARGET)

\* the correction record of the last call, when it produced one
ProducedRecord == IsRepentance \/ (IsFlow /\ FlowLogs # None)
CorrectionRecord == IF IsRepentance THEN lastCall.ret ELSE FlowLogs
CorrectionReason == IF IsRepentance THEN lastCall.args[1] ELSE "Low QCI detected"

(* C5: every correction record, from repentance_protocol directly or from   *)
(* the coherence gate, has its post-correction coherence equal to the       *)
(* configured qciTarget, whatever the coherence index and the reason.       *)
C5_ResetToTarget ==
    ProducedRecord => CorrectionRecord.new_qci = engine.config.QCI_TARGET

\* a record produced by the gate under an overridden QCI_TARGET
C5_Witness ==
    /\ IsFlow
    /\ FlowLogs # None
    /\ engine.config.QCI_TARGET # QCI_TARGET_DEFAULT
    /\ FGt(lastCall.metrics.qci, Zero)
    /\ FlowLogs.new_qci = engine.config.QCI_TARGET

(* C6: the record returned by repentance_protocol carries a qci_before and  *)
(* a qci_after field, with qci_after >= pi/4 and qci_after at least as      *)
(* close to qciTarget as qci_before.                                        *)
C6_BeforeAfterFields ==
    IsRepentance =>
        /\ {"qci_before", "qci_after"} \subseteq DOMAIN lastCall.ret
        /\ FGe(lastCall.ret.qci_after, REPENTANCE_TRIGGER_THRESHOLD_DEFAULT)
        /\ FLe(FAbs(FSub(engine.config.QCI_TARGET, lastCall.ret.qci_after)),
               FAbs(FSub(engine.config.QCI_TARGET, lastCall.ret.qci_before)))

\* the position of a line in the log of the last call, 0 when absent
LogIndex(line) ==
    IF \E k \in DOMAIN lastCall.log : lastCall.log[k] = line
    THEN CHOOSE k \in DOMAIN lastCall.log : lastCall.log[k] = line
    ELSE 0

(* C7: repentance_protocol performs Expose, Recompile, Purge, Reset in that *)
(* order and never returns a partial record: the record holds the reason in *)
(* its expose entry, the fixed recompile marker, purge = true, reset = true *)
(* and status REPENTANCE_COMPLETE.                                          *)
C7_FourSteps ==
    ProducedRecord =>
        /\ 0 < LogIndex("Step 1 - Expose")
        /\ LogIndex("Step 1 - Expose") < LogIndex("Step 2 - Recompile")
        /\ LogIndex("Step 2 - Recompile") < LogIndex("Step 3 - Purge")
        /\ LogIndex("Step 3 - Purge") < LogIndex("Step 4 - Reset")
        /\ LogIndex("Step 4 - Reset") < LogIndex("Repentance Protocol completed")
        /\ {"status", "expose", "recompile", "purge", "reset"}
              \subseteq DOMAIN CorrectionRecord
        /\ CorrectionRecord.expose = <<"Exposed: ", CorrectionReason>>
        /\ CorrectionRecord.recompile = "Recompiled: falsehood -> truth"
        /\ CorrectionRecord.purge = TRUE
        /\ CorrectionRecord.reset = TRUE
        /\ CorrectionRecord.status = "REPENTANCE_COMPLETE"

\* a direct call with a reason of the caller's
C7_Witness ==
    /\ IsRepentance
    /\ lastCall.args[1] = "Test sin pattern"
    /\ lastCall.ret.expose = <<"Exposed: ", "Test sin pattern">>
    /\ lastCall.ret.reset = TRUE

(* C8: for every coherence score >= 0, get_dynamic_invariant returns        *)
(* invariantHigh when the score is above harmonyThreshold and               *)
(* harmonyThreshold otherwise, so the boundary score returns                *)
(* harmonyThreshold.                                                        *)
C8_TwoBranch ==
    (IsInvariantCall /\ FGe(lastCall.args[1], Zero)) =>
        /\ lastCall.raised = ""
        /\ lastCall.ret = IF FGt(lastCall.args[1], engine.config.HARMONY_RIDGE)
                          THEN <<engine.config.DYNAMIC_INVARIANT>>
                          ELSE <<engine.config.HARMONY_RIDGE>>

\* the score exactly at the harmony threshold
C8_Witness ==
    /\ IsInvariantCall
    /\ FEq(lastCall.args[1], engine.config.HARMONY_RIDGE)
    /\ lastCall.ret = <<engine.config.HARMONY_RIDGE>>

\* the configuration a get_config() call would return now
EffectiveConfig == get_config(_config, env)

\* the state, the operation first: two calls of one operation have arguments
\* and results of one shape
CallView ==
    <<lastCall.op, lastCall.raised, lastCall.args, lastCall.ret, env, _config, engine>>

(* C9: get_dynamic_invariant with a negative score raises the invalid-input *)
(* error and returns no value, and the failed call changes neither the      *)
(* engine nor the configuration in force, so later calls behave as if it    *)
(* had not happened.                                                        *)
C9_RejectsNegative ==
    [][ (lastCall'.op = "get_dynamic_invariant" /\ FLt(lastCall'.args[1], Zero)) =>
            /\ lastCall'.raised = "CoherenceCalculationError"
            /\ lastCall'.ret = <<>>
            /\ engine' = engine
            /\ env' = env
            /\ get_config(_config', env') = EffectiveConfig ]_CallView

\* a failed call
C9_Witness ==
    /\ IsInvariantCall
    /\ FLt(lastCall.args[1], Zero)
    /\ lastCall.raised = "CoherenceCalculationError"

StatusRank(status) ==
    IF status = "COHERENT" THEN 2
    ELSE IF status = "PARTIAL_COHERENCE" THEN 1
    ELSE 0

\* the two band limits, 0.75 qciTarget and 0.5 qciTarget, as float products
UpperBand(target) == FMul(target, Float(75, 100))
LowerBand(target) == FMul(target, Float(5, 10))

(* C10: the status of calculate_qci is COHERENT when the index is at least  *)
(* 0.75 qciTarget, PARTIAL_COHERENCE from 0.5 qciTarget up to there, and    *)
(* NEEDS_REPENTANCE below; so the status rank never decreases as the index  *)
(* grows.                                                                   *)
C10_StatusBands ==
    IsQciCall =>
        LET r == lastCall.ret
        IN  /\ r.status = "COHERENT" <=> FGe(r.qci, UpperBand(r.target))
            /\ r.status = "PARTIAL_COHERENCE"
                  <=> (FGe(r.qci, LowerBand(r.target)) /\ FLt(r.qci, UpperBand(r.target)))
            /\ r.status = "NEEDS_REPENTANCE" <=> FLt(r.qci, LowerBand(r.target))
            /\ r.target = engine.config.QCI_TARGET
            /\ \A tif \in TifVals, resistance \in ResVals :
                  \A o \in QciTable[engine][tif][resistance] :
                      FLe(r.qci, o.qci) => StatusRank(r.status) <= StatusRank(o.status)

\* an index exactly at half the target is PARTIAL_COHERENCE
C10_Witness ==
    /\ IsQciCall
    /\ FEq(FAdd(lastCall.ret.qci, lastCall.ret.qci), lastCall.ret.target)
    /\ lastCall.ret.status = "PARTIAL_COHERENCE"

\* calculate_qci never decreases from the inputs (tif, resistance) of the
\* last call, which returned a, to the inputs (tif2, resistance2): neither
\* the index nor the status rank
QciNotDecreasing(tif, resistance, tif2, resistance2) ==
    LET a == lastCall.ret
    IN  \A b \in IF <<tif2, resistance2>> = <<tif, resistance>> THEN {a}
                 ELSE QciTable[engine][tif2][resistance2] :
            /\ FLe(a.qci, b.qci)
            /\ StatusRank(a.status) <= StatusRank(b.status)

(* C11: the coherence index and its status rank are monotonic in the inputs *)
(* of calculate_qci: with resistance fixed, a larger truthGap never         *)
(* decreases them, and with truthGap fixed, a smaller resistance never      *)
(* decreases them, for every pair of inputs the operation accepts.  Stated  *)
(* for the default configuration.                                           *)
C11_Monotonic ==
    (IsQciCall /\ engine.config = StarEngineConfig) =>
        LET tif == lastCall.args[1]
            resistance == lastCall.args[2]
        IN  /\ \A tif2 \in TifVals :
                  FLe(tif, tif2) => QciNotDecreasing(tif, resistance, tif2, resistance)
            /\ \A resistance2 \in ResVals :
                  FLe(resistance2, resistance)
                      => QciNotDecreasing(tif, resistance, tif, resistance2)

IsAnalyze == lastCall.op = "analyze"

\* the final statuses the endpoint documents
FinalStatuses == {"RELEASED", "REJECTED", "REPENTANCE_TRIGGERED", "QUARANTINED"}

(* C12: the first value returned by operational_flow is a record with a     *)
(* status field whose value is one of RELEASED, REJECTED,                   *)
(* REPENTANCE_TRIGGERED, QUARANTINED, and the /analyze endpoint reads that   *)
(* status field from it: the read succeeds and yields one of the four.      *)
C12_StatusRecord ==
    IsAnalyze =>
        /\ lastCall.raised = ""
        /\ "status" \in DOMAIN lastCall.ret
        /\ lastCall.ret.status \in FinalStatuses

\* the threshold fields of a configuration
Thresholds ==
    {"HARMONY_RIDGE", "DYNAMIC_INVARIANT", "DENSITY_THRESHOLD",
     "COVENANT_MULTIPLIER", "QCI_TARGET", "REPENTANCE_TRIGGER_THRESHOLD"}

\* all thresholds are finite numbers and repentanceThreshold < qciTarget
ValidConfig(cfg) ==
    /\ \A k \in Thresholds : IsFinite(cfg[k])
    /\ FLt(cfg.REPENTANCE_TRIGGER_THRESHOLD, cfg.QCI_TARGET)

(* C13: every configuration the program can load or install (the defaults,  *)
(* from_env under any environment overrides, set_config) satisfies          *)
(* repentanceThreshold < qciTarget with all thresholds finite.              *)
C13_ValidConfig ==
    /\ _config # None => ValidConfig(_config)
    /\ engine # None => ValidConfig(engine.config)

(* C14: the configuration is loaded once and never mutated afterwards:     *)
(* every get_config call after the first (the one made when the engine was *)
(* built) returns the same values, and the thresholds of a constructed      *)
(* engine equal those of the current global configuration.                  *)
C14_LoadedOnce ==
    engine # None =>
        /\ _config # None => _config = engine.config
        /\ lastCall.op = "get_config" => lastCall.ret = engine.config

----------------------------------------------------------------------------
(* What the last call of the Triple I protocol shows. *)

IsProcess == lastCall.op = "process"
IsInternalLayer == lastCall.op = "internal_layer"
Returned == lastCall.raised = ""

\* the text and the context mapping the caller handed in
ArgText == lastCall.args[1]
ArgContext == lastCall.args[2]

\* s.startswith(p)
startswith(s, p) == Len(s) >= Len(p) /\ SubSeq(s, 1, Len(p)) = p

\* the kinds of trace entries in the order the stages append them: the first
\* five belong to Stage 1, the others to Stage 2
EntryKinds ==
    <<"SANITIZED", "CORRECTED", "WARNING", "CLAMPED", "FLAGGED",
      "DETECTED", "CONTRADICTION", "PATTERN", "INVERSE_VIOLATION">>

\* the position of an entry's kind in EntryKinds, 0 for an unknown kind
KindRank(entry) ==
    IF \E k \in DOMAIN EntryKinds : startswith(entry, EntryKinds[k] \o ":")
    THEN CHOOSE k \in DOMAIN EntryKinds : startswith(entry, EntryKinds[k] \o ":")
    ELSE 0

\* the entries of a list are in the order of their kinds
InStageOrder(transformations) ==
    /\ \A k \in DOMAIN transformations : KindRank(transformations[k]) > 0
    /\ \A j, k \in DOMAIN transformations :
          j < k => KindRank(transformations[j]) <= KindRank(transformations[k])

\* the context Stage 1 is to leave: alignment corrected, dfruit_dt clamped
Stage1Context(ctx) ==
    [k \in DOMAIN ctx |->
        IF k = "alignment" /\ has(ctx, "separation")
              /\ FLt(ctx.alignment, ctx.separation)
        THEN FAdd(ctx.separation, Tenth)
        ELSE IF k = "dfruit_dt" /\ FGt(ctx.dfruit_dt, Ten) THEN Ten
        ELSE ctx[k]]

(* C15: process runs Stage 1, Stage 2 and Stage 3 exactly once each, in     *)
(* that order; in the returned transformations every Stage-1 entry          *)
(* (SANITIZED, CORRECTED, WARNING, CLAMPED, FLAGGED, in that order)         *)
(* precedes every Stage-2 entry (DETECTED, CONTRADICTION, PATTERN,          *)
(* INVERSE_VIOLATION, in that order), and Stage 2 and Stage 3 evaluate the  *)
(* context as Stage 1 mutated it, not the caller's original values.         *)
C15_StagesInOrder ==
    IsProcess =>
        /\ lastCall.calls = stages
        /\ Returned
        /\ InStageOrder(lastCall.ret.transformations)
        /\ lastCall.ret.transformations =
              inverse_layer(protocol, lastCall.metrics.internal.result,
                            Stage1Context(ArgContext),
                            lastCall.metrics.internal.transformations).transformations
        /\ lastCall.metrics.invariant.locked_output.context = Stage1Context(ArgContext)
        /\ lastCall.metrics.invariant.invariant_lock.of.context = Stage1Context(ArgContext)

\* what Stage 1 of the last call produced: the text handed to the later
\* stages and the trace entries
RanStage1 == IsProcess \/ IsInternalLayer
Stage1Text == IF IsProcess THEN lastCall.metrics.internal.result ELSE lastCall.ret[1]
Stage1Entries ==
    IF IsProcess THEN lastCall.metrics.internal.transformations ELSE lastCall.ret[2]

\* the number of entries of a list that are of the given kind
CountKind(transformations, kind) ==
    Cardinality({k \in DOMAIN transformations :
                    startswith(transformations[k], kind \o ":")})

\* the blocklisted tokens the text contains, in any letter case: those its
\* upper-case form contains
TokensIn(text) ==
    LET tokens(u) == {k \in DOMAIN deletion_patterns :
                         contains(deletion_patterns[k], u)}
    IN  tokens(upper(text))

\* the text without its [TOKEN_BLOCKED] markers
RECURSIVE StripMarkers(_, _)
StripMarkers(text, k) ==
    IF k > Len(deletion_patterns) THEN text
    ELSE StripMarkers(replace(text, blocked[k], <<>>), k + 1)

(* C16: the blocklist of Stage 1 is case-insensitive end to end: when the   *)
(* text contains DELETE, DROP, REMOVE, ERASE or PURGE in any letter case,   *)
(* every occurrence is replaced by the [TOKEN_BLOCKED] marker in the text   *)
(* handed to the later stages and a SANITIZED entry is appended; a          *)
(* SANITIZED entry is never appended while the text is left unchanged.      *)
C16_CaseInsensitive ==
    RanStage1 =>
        /\ TokensIn(ArgText) # {} =>
              /\ TokensIn(StripMarkers(Stage1Text, 1)) = {}
              /\ CountKind(Stage1Entries, "SANITIZED") > 0
        /\ CountKind(Stage1Entries, "SANITIZED") > 0 => Stage1Text # ArgText

(* C17 as claimed: a text containing k distinct blocklisted tokens, each    *)
(* possibly repeated, yields exactly k SANITIZED entries, and a text        *)
(* containing only DELETE yields exactly one with DELETE replaced by        *)
(* [DELETE_BLOCKED].                                                        *)
C17_EntryPerToken ==
    RanStage1 =>
        /\ CountKind(Stage1Entries, "SANITIZED") = Cardinality(TokensIn(ArgText))
        /\ (TokensIn(ArgText) = {1} /\ contains(Str("DELETE"), ArgText)) =>
              Stage1Text = replace(ArgText, Str("DELETE"), Str("[DELETE_BLOCKED]"))

(* C17, amended: a text containing k >= 1 distinct blocklisted tokens, each *)
(* possibly repeated, yields exactly one SANITIZED entry, whatever k is,    *)
(* and a text containing none yields no SANITIZED entry; a text containing  *)
(* only DELETE yields exactly one with DELETE replaced by [DELETE_BLOCKED]. *)
C17_OneEntryPerText ==
    RanStage1 =>
        /\ CountKind(Stage1Entries, "SANITIZED")
              = IF TokensIn(ArgText) = {} THEN 0 ELSE 1
        /\ (TokensIn(ArgText) = {1} /\ contains(Str("DELETE"), ArgText)) =>
              Stage1Text = replace(ArgText, Str("DELETE"), Str("[DELETE_BLOCKED]"))

\* two distinct tokens in the text and one SANITIZED entry
C17_Witness ==
    /\ RanStage1
    /\ Cardinality(TokensIn(ArgText)) = 2
    /\ CountKind(Stage1Entries, "SANITIZED") = 1
    /\ count(Stage1Text, Str("[DELETE_BLOCKED]")) = 1

\* the caller's mapping holds both keys
HasBoth(ctx, a, b) == has(ctx, a) /\ has(ctx, b)

(* C18: Stage 1 changes the context only through its two correcting rules.  *)
(* After internal_layer, alignment >= separation whenever both keys are     *)
(* present: alignment is set to separation + 0.1 and CORRECTED appended     *)
(* exactly when alignment < separation held before. dfruit_dt <= 10.0       *)
(* whenever present: it is set to 10.0 and CLAMPED appended exactly when it *)
(* exceeded 10.0. The WARNING and FLAGGED rules append their entries and    *)
(* mutate nothing, and no other key is added, removed or changed.           *)
C18_OnlyCorrectingRules ==
    RanStage1 =>
        LET before    == ArgContext
            corrected == HasBoth(before, "alignment", "separation")
                         /\ FLt(before.alignment, before.separation)
            clamped   == has(before, "dfruit_dt")
                         /\ FGt(before.dfruit_dt, Ten)
            warned    == HasBoth(before, "coherence", "density")
                         /\ FGt(before.coherence, OneAndHalf)
                         /\ FLt(before.density, Two)
            flagged   == has(before, "qci") /\ FLt(before.qci, LowQci)
            Entries(kind) == CountKind(Stage1Entries, kind)
        IN  /\ DOMAIN context = DOMAIN before
            /\ HasBoth(context, "alignment", "separation") =>
                  FGe(context.alignment, context.separation)
            /\ has(context, "dfruit_dt") => FLe(context.dfruit_dt, Ten)
            /\ Entries("CORRECTED") = IF corrected THEN 1 ELSE 0
            /\ Entries("CLAMPED") = IF clamped THEN 1 ELSE 0
            /\ Entries("WARNING") = IF warned THEN 1 ELSE 0
            /\ Entries("FLAGGED") = IF flagged THEN 1 ELSE 0
            /\ \A k \in DOMAIN before :
                  context[k] = IF k = "alignment" /\ corrected
                               THEN FAdd(before.separation, Tenth)
                               ELSE IF k = "dfruit_dt" /\ clamped THEN Ten
                               ELSE before[k]

\* both correcting rules applied to one mapping, next to a FLAGGED entry:
\* the alignment set is the float sum 0.2 + 0.1, which is not the float 0.3
C18_Witness ==
    /\ IsInternalLayer
    /\ HasBoth(ArgContext, "alignment", "separation")
    /\ has(ArgContext, "dfruit_dt")
    /\ FLt(ArgContext.alignment, ArgContext.separation)
    /\ FGt(ArgContext.dfruit_dt, Ten)
    /\ ArgContext.separation = Float(2, 10)
    /\ context.alignment = FAdd(ArgContext.separation, Tenth)
    /\ context.alignment # Float(3, 10)
    /\ context.dfruit_dt = Ten
    /\ CountKind(Stage1Entries, "CORRECTED") = 1
    /\ CountKind(Stage1Entries, "CLAMPED") = 1
    /\ CountKind(Stage1Entries, "FLAGGED") = 1

\* the lock digest of the last process call: the one the output hash covers
LockDigest == lastCall.ret.output_hash.of.invariant_lock

\* a digest starts with the first 8 characters of another
StartsWithPrefixOf(lock, output_hash) == lock.hex8 = output_hash.hex8

(* C19: the returned record has status LOCKED if and only if the lock       *)
(* digest starts with the first 8 characters of the output hash, and        *)
(* VERIFICATION_FAILED otherwise; the invariant_locked flag is true exactly *)
(* when the status is LOCKED.                                               *)
C19_LockedIffPrefix ==
    (IsProcess /\ Returned) =>
        /\ LockDigest = lastCall.metrics.invariant.invariant_lock
        /\ lastCall.ret.status =
              IF StartsWithPrefixOf(LockDigest, lastCall.ret.output_hash)
              THEN "LOCKED" ELSE "VERIFICATION_FAILED"
        /\ lastCall.ret.invariant_locked <=> lastCall.ret.status = "LOCKED"

\* a record locked because the two digests start alike, six rounds of
\* hashing behind the lock
C19_Witness ==
    /\ IsProcess /\ Returned
    /\ LockDigest.rounds = 6
    /\ StartsWithPrefixOf(LockDigest, lastCall.ret.output_hash)
    /\ lastCall.ret.status = "LOCKED"
    /\ lastCall.ret.invariant_locked

(* C20: each process invocation owns its own working copy of the context:   *)
(* the caller's context mapping is unchanged after process returns, so two  *)
(* invocations handed the same mapping, one after the other or interleaved, *)
(* each observe the caller's original values and do not affect each         *)
(* other's results.                                                         *)
C20_CallerContextUnchanged ==
    IsProcess => context = ArgContext

\* a step that is a returning process call, made right after another one
\* with the same text and the mapping the caller still holds
ProcessAgain ==
    /\ IsProcess /\ Returned
    /\ lastCall'.op = "process" /\ lastCall'.raised = ""
    /\ lastCall'.args[1] = ArgText

(* C21: process is idempotent on its transformations: calling it twice with *)
(* the same text and the same context yields the same ordered               *)
(* transformations list both times (the timestamp-dependent hashes are not  *)
(* compared).                                                               *)
C21_Idempotent ==
    [][ ProcessAgain =>
            lastCall'.ret.transformations = lastCall.ret.transformations ]_CallView

\* the entries of a list, by kind and in the order given, whose rule fired
Fired(kinds, fired) == SelectSeq(kinds, LAMBDA kind : fired[kind])

(* C22: all Stage-1 checks run unconditionally and independently, and a     *)
(* check whose referenced key is absent from the context is skipped         *)
(* silently: for every subset of the keys alignment, separation, coherence, *)
(* density, dfruit_dt, qci present in the context, each check appends its   *)
(* entry exactly when its own condition holds on the keys present,          *)
(* regardless of the other checks, and no error is raised.                  *)
C22_ChecksIndependent ==
    IsInternalLayer =>
        LET before == ArgContext
            keys   == DOMAIN before
            fired  ==
                [SANITIZED |-> TokensIn(ArgText) # {},
                 CORRECTED |-> /\ {"alignment", "separation"} \subseteq keys
                               /\ FLt(before.alignment, before.separation),
                 WARNING   |-> /\ {"coherence", "density"} \subseteq keys
                               /\ FGt(before.coherence, OneAndHalf)
                               /\ FLt(before.density, Two),
                 CLAMPED   |-> "dfruit_dt" \in keys
                               /\ FGt(before.dfruit_dt, Ten),
                 FLAGGED   |-> "qci" \in keys /\ FLt(before.qci, LowQci)]
        IN  /\ Returned
            /\ \A k \in DOMAIN Stage1Entries :
                  startswith(Stage1Entries[k],
                             Fired(SubSeq(EntryKinds, 1, 5), fired)[k] \o ":")
            /\ Len(Stage1Entries) = Len(Fired(SubSeq(EntryKinds, 1, 5), fired))

\* half of each rule's keys are absent: those rules are skipped, and the
\* clamp and the flag both fire on the keys that are there
C22_Witness ==
    /\ IsInternalLayer /\ Returned
    /\ DOMAIN ArgContext = {"separation", "coherence", "dfruit_dt", "qci"}
    /\ CountKind(Stage1Entries, "CLAMPED") = 1
    /\ CountKind(Stage1Entries, "FLAGGED") = 1
    /\ Len(Stage1Entries) = 2 + CountKind(Stage1Entries, "SANITIZED")

\* what Stage 1 handed to Stage 2 and what Stage 2 left of it
Stage1Out == lastCall.metrics.internal
Stage2Out == lastCall.metrics.inverse

(* C23: Stage 2 is read-only: inverse_layer returns the text it was given   *)
(* unchanged and leaves every key and value of the context unchanged; it    *)
(* only appends entries to its own copy of the transformations list,        *)
(* leaving the list produced by Stage 1 unmodified.                         *)
C23_Stage2ReadOnly ==
    IsProcess =>
        /\ Stage2Out.context = Stage1Out.context
        /\ Stage2Out.internal_transformations = Stage1Out.transformations
        /\ context = Stage1Out.context
        /\ Returned =>
              /\ Stage2Out.result = Stage1Out.result
              /\ lastCall.metrics.invariant.locked_output.data = Stage1Out.result
              /\ Len(Stage2Out.transformations) >= Len(Stage1Out.transformations)
              /\ SubSeq(Stage2Out.transformations, 1, Len(Stage1Out.transformations))
                    = Stage1Out.transformations

\* Stage 2 appended entries of its own to a list Stage 1 had entries in,
\* over a text Stage 1 rewrote and a context Stage 1 corrected
C23_Witness ==
    /\ IsProcess /\ Returned
    /\ Stage1Out.result # ArgText
    /\ Stage1Out.context # ArgContext
    /\ Stage1Out.transformations # <<>>
    /\ Len(Stage2Out.transformations) > Len(Stage1Out.transformations)
    /\ Stage2Out.internal_transformations = Stage1Out.transformations

\* separation / (alignment + 1), for alignment + 1 other than 0
SwappedCoherence(ctx) == FDiv(ctx.separation, FAdd(ctx.alignment, One))

(* C24: when alignment and separation are both present, Stage 2 computes    *)
(* the flipped coherence as separation / (alignment + 1) and appends a      *)
(* DETECTED entry exactly when that value exceeds the current coherence     *)
(* value of the context (taken as 0 when coherence is absent).              *)
C24_FlippedCoherence ==
    (/\ IsProcess /\ Returned
     /\ HasBoth(Stage2Out.context, "alignment", "separation")
     /\ ~FIsZero(FAdd(Stage2Out.context.alignment, One))) =>
        (CountKind(Stage2Out.transformations, "DETECTED") = 1
            <=> FGt(SwappedCoherence(Stage2Out.context),
                    get(Stage2Out.context, "coherence", Zero)))

(* C25: the lock digest is a hash chain of exactly five rounds in total:    *)
(* the hash function is applied once to the canonical serialization and the *)
(* resulting digest is re-hashed exactly four more times.                   *)
C25_FiveRounds ==
    (IsProcess /\ Returned) =>
        /\ LockDigest.tag = "sha256"
        /\ LockDigest.rounds = 5

\* what Stage 3 was handed in the last process call
Stage3In == lastCall.metrics.invariant.locked_output

\* a step from one returned process call to the next in which Stage 3 is
\* handed the same text and context at the same timestamp, under the same
\* multiplier, and another transformations list
DifferOnlyInTransformations ==
    /\ IsProcess /\ Returned
    /\ lastCall'.op = "process" /\ lastCall'.raised = ""
    /\ Stage3In'.data = Stage3In.data
    /\ Stage3In'.context = Stage3In.context
    /\ LockDigest'.of.timestamp = LockDigest.of.timestamp
    /\ LockDigest'.of.covenant_multiplier = LockDigest.of.covenant_multiplier
    /\ Stage3In'.transformations # Stage3In.transformations

(* C26: the lock digest covers the transformations accumulated so far: the  *)
(* payload hashed into the lock contains text, context, the transformations *)
(* list, the timestamp and the covenant multiplier, so two runs that differ *)
(* only in their transformations list (same text, context, timestamp and    *)
(* multiplier) hash different lock payloads.                                *)
C26_LockCoversTransformations ==
    [][ DifferOnlyInTransformations => LockDigest'.of # LockDigest.of ]_CallView

(* C27: for every configuration the program can load, a QCI_TARGET          *)
(* overridden from the environment included, the coherence gate of          *)
(* operational_flow fires for exactly those inputs whose calculate_qci      *)
(* status is NEEDS_REPENTANCE: qci < repentance threshold if and only if    *)
(* status = NEEDS_REPENTANCE.                                               *)
C27_GateMatchesStatus ==
    IsFlow =>
        /\ FlowVerdict = LowCoherence
              <=> FLt(lastCall.metrics.qci, engine.config.REPENTANCE_TRIGGER_THRESHOLD)
        /\ FLt(lastCall.metrics.qci, engine.config.REPENTANCE_TRIGGER_THRESHOLD)
              <=> lastCall.metrics.status = "NEEDS_REPENTANCE"

(* C28: process is total on numeric contexts: for every text and every      *)
(* context whose present keys hold finite numbers of any sign, separation   *)
(* = -1 and alignment = -1 included, process raises no error and returns a  *)
(* record whose status is LOCKED or VERIFICATION_FAILED.                    *)
C28_ProcessTotal ==
    IsProcess =>
        /\ lastCall.raised = ""
        /\ lastCall.ret # None
        /\ lastCall.ret.status \in {"LOCKED", "VERIFICATION_FAILED"}

\* a step in which one engine is handed the parameter map the other engine
\* was handed in the call before
OtherEngineSameParams ==
    /\ {lastCall.op, lastCall'.op} = {"operational_flow", "core.operational_flow"}
    /\ lastCall'.args = lastCall.args

(* C29: the two engines agree under the default configuration: for every    *)
(* input and parameter map, operational_flow of core.py and of              *)
(* core_improved.py return the same verdict message (low-coherence          *)
(* rejection, low-density rejection or RELEASED) and both return a          *)
(* repentance log exactly when the verdict is the low-coherence rejection.  *)
C29_EnginesAgree ==
    [][ OtherEngineSameParams =>
            /\ lastCall'.ret[1] = lastCall.ret[1]
            /\ Head(lastCall'.ret[1]) \in {LowCoherence, LowDensity, Released}
            /\ lastCall'.ret[2] # None <=> Head(lastCall'.ret[1]) = LowCoherence
            /\ lastCall.ret[2] # None <=> Head(lastCall.ret[1]) = LowCoherence
       ]_<<lastCall.op, lastCall.args>>

\* the engine of core.py released a parameter map whose coherence index is
\* the threshold itself
C29_Witness ==
    /\ lastCall.op = "core.operational_flow"
    /\ Head(lastCall.ret[1]) = Released
    /\ \A qci \in core_calculate_qci(core_StarEngine, ArgTruthGap, ArgResistance) :
          FEq(qci, FMul(core_StarEngine.QCI_TARGET, Float(5, 10)))
    /\ engine # None
    /\ \A r \in FlowTable[engine][lastCall.args] : Head(r.ret[1]) = Released

(* C30: within one process call a single timestamp value is used            *)
(* throughout: the timestamp hashed into the lock payload, the timestamp    *)
(* hashed into the output hash payload and the timestamp field of the       *)
(* returned record are equal, even when the clock advances during the call. *)
C30_OneTimestamp ==
    (IsProcess /\ Returned) =>
        /\ LockDigest.of.timestamp = lastCall.ret.output_hash.of.timestamp
        /\ lastCall.ret.output_hash.of.timestamp = lastCall.ret.timestamp

====
